---- MODULE Spec2Model ----
(***************************************************************************)
(* Invoice resolvers of server/graphql/v1/queries.js: allInvoices,         *)
(* Invoice and TransactionInvoice, with validateDate and parseInvoiceSlug. *)
(*                                                                         *)
(* Strings are sequences of UTF-16 code units (integers), so that          *)
(* concatenation, substr/substring/lastIndexOf, Number(..), String(..) and *)
(* the relational operators on strings are computed as JavaScript computes *)
(* them.  Time is counted in ticks, TicksPerMonth ticks to a calendar      *)
(* month; tick 0 of a month is midnight of its first day.  The server      *)
(* clock is UTC, so that new Date('Y-M-01') is midnight of the first day   *)
(* of month M for a padded and for an unpadded M alike.                    *)
(***************************************************************************)
EXTENDS Integers, Sequences, FiniteSets, TLC

\* ------------------------------------------------------------------ bounds
\* Largest number of rows of the Transactions table.
MaxTx == 3
\* Number of requests that may be in flight together.
MaxRequests == 2
\* Granularity of time: ticks per calendar month.
TicksPerMonth == 2

\* --------------------------------------------------------- program constants
\* The null of an id column and of a lookup that found nothing.
NoId == 0
\* validateDate / parseInvoiceSlug: the first year invoices exist for.
MinYear == 2015
\* The '.' of an invoice slug (code unit).
DOT == 46
\* The index parseInvoiceSlug takes the host slug from.
HostSlugStart == 7

\* ------------------------------------------------------------------ strings
Str0 == 48

IsDigit(c) == c >= Str0 /\ c <= Str0 + 9

\* Template literal / String(n) of a non-negative integer.
RECURSIVE ToStr(_)
ToStr(n) == IF n < 10 THEN <<Str0 + n>> ELSE ToStr(n \div 10) \o <<Str0 + (n % 10)>>

\* Number(s) is NaN unless s is empty or all digits (the strings used here
\* carry no sign, blank, exponent or decimal point next to a digit).
IsNumeric(s) == \A i \in 1..Len(s) : IsDigit(s[i])

RECURSIVE NumVal(_)
NumVal(s) == IF s = <<>> THEN 0
             ELSE 10 * NumVal(SubSeq(s, 1, Len(s) - 1)) + (s[Len(s)] - Str0)

\* a < b and a > b of JavaScript for a string a and a number b: a is
\* converted by Number(a), and every comparison with NaN is false.
NumLt(s, n) == IsNumeric(s) /\ NumVal(s) < n
NumGt(s, n) == IsNumeric(s) /\ NumVal(s) > n

\* a < b of JavaScript for two strings: by code units, a proper prefix first.
RECURSIVE StrLt(_, _)
StrLt(a, b) ==
  IF b = <<>> THEN FALSE
  ELSE IF a = <<>> THEN TRUE
  ELSE IF a[1] # b[1] THEN a[1] < b[1]
  ELSE StrLt(Tail(a), Tail(b))

StrGt(a, b) == StrLt(b, a)

Clamp(i, n) == IF i < 0 THEN 0 ELSE IF i > n THEN n ELSE i

\* String.prototype.substr(start, length), start >= 0.
substr(s, start, length) ==
  SubSeq(s, Clamp(start, Len(s)) + 1, Clamp(start + length, Len(s)))

\* String.prototype.substr(start): to the end of the string.
substrFrom(s, start) == SubSeq(s, Clamp(start, Len(s)) + 1, Len(s))

\* String.prototype.substring(a, b): both indexes clamped to 0..length and
\* swapped when a > b.
substring(s, a, b) ==
  LET x == Clamp(a, Len(s))
      y == Clamp(b, Len(s))
  IN  IF x <= y THEN SubSeq(s, x + 1, y) ELSE SubSeq(s, y + 1, x)

\* String.prototype.lastIndexOf(ch): 0-based, -1 when absent.
\* A faulty variant of lastIndexOf: the first occurrence, as indexOf finds it.
indexOf(s, ch) ==
  LET hits == {i \in 1..Len(s) : s[i] = ch}
  IN  IF hits = {} THEN -1
      ELSE (CHOOSE i \in hits : \A j \in hits : i <= j) - 1

lastIndexOf(s, ch) ==
  LET hits == {i \in 1..Len(s) : s[i] = ch}
  IN  IF hits = {} THEN -1
      ELSE (CHOOSE i \in hits : \A j \in hits : j <= i) - 1

\* "NaN", String(NaN).
StrNaN == <<78, 97, 78>>

\* 'transaction-'
StrTransactionDash == <<116, 114, 97, 110, 115, 97, 99, 116, 105, 111, 110, 45>>

\* --------------------------------------------------------------------- time
\* Midnight (tick 0) of the first day of a month, plus off ticks.
Ts(year, month, off) == (year * 12 + (month - 1)) * TicksPerMonth + off

\* Date.prototype.getFullYear / getMonth (0-based) / getDate.
getFullYear(t) == t \div (12 * TicksPerMonth)
getMonth(t) == (t \div TicksPerMonth) % 12
getDate(t) == (t % TicksPerMonth) + 1

\* new Date(`${year}-${month}-01`) for two strings: an Invalid Date unless
\* both are numbers that name a month.
NewDate(year, month) ==
  IF IsNumeric(year) /\ IsNumeric(month) /\ year # <<>> /\ month # <<>>
     /\ NumVal(month) >= 1 /\ NumVal(month) <= 12
  THEN [valid |-> TRUE, t |-> Ts(NumVal(year), NumVal(month), 0)]
  ELSE [valid |-> FALSE, t |-> 0]

\* a < b of two Date objects: false when either is an Invalid Date (NaN).
DateLt(a, b) == a.valid /\ b.valid /\ a.t < b.t

\* ------------------------------------------------------------------- errors
NoError == [error |-> "", message |-> ""]

Err(e, m) == [error |-> e, message |-> m]

ErrInvalidDate ==
  Err("ValidationFailed",
      "Invalid date object. Must have a valid month, where 1 == January, and be after 2014")

ErrDateOrder ==
  Err("ValidationFailed", "Invalid date object. dateFrom must be before dateTo")

ErrInvoiceSlug ==
  Err("ValidationFailed",
      "Invalid invoiceSlug format. Should be :year:2digitMonth.:hostSlug.:fromCollectiveSlug")

ErrUnauthorized ==
  Err("Unauthorized", "You don't have permission to access invoices for this user")

ErrFromNotFoundAll == Err("NotFound", "User or organization not found")

ErrFromNotFound == Err("NotFound", "User or organization not found for slug undefined")

ErrHostNotFound == Err("NotFound", "Host not found")

ErrNoTransactions == Err("NotFound", "No transactions found")

ErrTransactionNotFound == Err("NotFound", "Transaction doesn't exists")

\* hostsById[HostCollectiveId].slug of a host that findByPk did not find.
ErrTypeError == Err("TypeError", "Cannot read property 'slug' of null")

\* A rejected query.
ErrDatabase == Err("DatabaseError", "Invalid value Invalid Date")

\* ------------------------------------------------------- validation helpers
\* A faulty variant of validateDate: year <= 2015.
validateDateYearInclusive(dateObj) ==
  IF (IsNumeric(dateObj.year) /\ NumVal(dateObj.year) <= MinYear)
     \/ (NumLt(dateObj.month, 1) \/ NumGt(dateObj.month, 12))
  THEN ErrInvalidDate
  ELSE NoError

\* validateDate(dateObj): the error it throws, NoError when it returns.
validateDate(dateObj) ==
  IF NumLt(dateObj.year, MinYear)
     \/ (NumLt(dateObj.month, 1) \/ NumGt(dateObj.month, 12))
  THEN ErrInvalidDate
  ELSE NoError

\* A faulty variant of monthPlusOne: the month after December is January.
monthPlusOneWrapped(month) ==
  IF ~IsNumeric(month) THEN StrNaN
  ELSE IF NumVal(month) = 12 THEN ToStr(1)
  ELSE ToStr(NumVal(month) + 1)

\* String(Number(month) + 1)
monthPlusOne(month) ==
  IF IsNumeric(month) THEN ToStr(NumVal(month) + 1) ELSE StrNaN

\* parseInvoiceSlug(invoiceSlug): err is the error it throws (NoError when it
\* returns), the other fields are what it returns.
parseInvoiceSlug(invoiceSlug) ==
  LET year == substr(invoiceSlug, 0, 4)
      month == substr(invoiceSlug, 4, 2)
      collectiveSlug ==
        substring(invoiceSlug, HostSlugStart, lastIndexOf(invoiceSlug, DOT))
      fromCollectiveSlug == substrFrom(invoiceSlug, lastIndexOf(invoiceSlug, DOT) + 1)
  IN  [err |-> IF collectiveSlug = <<>> \/ NumLt(year, MinYear)
                  \/ (NumLt(month, 1) \/ NumGt(month, 12))
               THEN ErrInvoiceSlug ELSE NoError,
       dateFrom |-> [year |-> year, month |-> month],
       dateTo |-> [year |-> year,
                  month |-> monthPlusOne(month)],
       collectiveSlug |-> collectiveSlug,
       fromCollectiveSlug |-> fromCollectiveSlug]

\* ----------------------------------------------------------------- database
\* The Collectives table: two payers (1 'x', 2 'y') and two hosts (3 'g',
\* 4 'gh').  Slugs are unique.
Collectives ==
  << [id |-> 1, slug |-> <<120>>, currency |-> "USD", invoiceTitle |-> ""],
     [id |-> 2, slug |-> <<121>>, currency |-> "USD", invoiceTitle |-> ""],
     [id |-> 3, slug |-> <<103>>, currency |-> "EUR", invoiceTitle |-> ""],
     [id |-> 4, slug |-> <<103, 104>>, currency |-> "USD", invoiceTitle |-> "Receipt"] >>

CollectiveIds == 1..Len(Collectives)

\* A slug no collective has.
UnknownSlug == <<122, 122>>

\* Collective.findOne({ where: { slug } }) and Collective.findBySlug(slug):
\* the id of the collective, NoId when there is none.
findBySlug(slug) ==
  IF \E c \in CollectiveIds : Collectives[c].slug = slug
  THEN CHOOSE c \in CollectiveIds : Collectives[c].slug = slug
  ELSE NoId

\* Collective.findByPk(id): the id of the collective, NoId when there is none.
findByPk(id) == IF id \in CollectiveIds THEN id ELSE NoId

\* The callers: NoId is the unauthenticated caller (req.remoteUser unset),
\* user u is the user of collective u.
Users == {1, 2}

\* remoteUser.isAdmin(CollectiveId)
isAdmin(remoteUser, CollectiveId) == remoteUser = CollectiveId

\* A faulty variant of NotAdmin: any logged-in caller passes.
NotAdminOnlyIfLoggedOut(remoteUser, CollectiveId) == remoteUser = NoId

\* !req.remoteUser || !req.remoteUser.isAdmin(fromCollective.id)
NotAdmin(remoteUser, CollectiveId) ==
  remoteUser = NoId \/ ~isAdmin(remoteUser, CollectiveId)

\* A faulty variant of BilledTo: the virtual card of another collective is
\* not looked at.
BilledToIgnoringCard(t, fromId) ==
  t.FromCollectiveId = fromId \/ t.UsingVirtualCardFromCollectiveId = fromId

\* The Op.or both resolvers put in their where clause.
BilledTo(t, fromId) ==
  \/ (t.FromCollectiveId = fromId /\ t.UsingVirtualCardFromCollectiveId = NoId)
  \/ t.UsingVirtualCardFromCollectiveId = fromId

\* The where clause of allInvoices.
allInvoicesWhere(t, fromId) == t.type = "CREDIT" /\ BilledTo(t, fromId)

\* A faulty variant of InvoiceWhere: createdAt <= endsAt.
InvoiceWhereEndInclusive(t, fromId, hostId, startsAt, endsAt) ==
  /\ BilledTo(t, fromId)
  /\ t.HostCollectiveId = hostId
  /\ t.createdAt >= startsAt /\ t.createdAt <= endsAt
  /\ t.type = "CREDIT"

\* The where clause of Invoice.
InvoiceWhere(t, fromId, hostId, startsAt, endsAt) ==
  /\ BilledTo(t, fromId)
  /\ t.HostCollectiveId = hostId
  /\ t.createdAt >= startsAt /\ t.createdAt < endsAt
  /\ t.type = "CREDIT"

\* Transaction.prototype.paymentMethodProviderCollectiveId()
paymentMethodProviderCollectiveId(t) ==
  IF t.UsingVirtualCardFromCollectiveId # NoId
  THEN t.UsingVirtualCardFromCollectiveId
  ELSE t.FromCollectiveId

\* ------------------------------------------------- allInvoices: the grouping
\* month < 10 ? `0${month}` : `${month}`
month2digit(month) == IF month < 10 THEN <<Str0>> \o ToStr(month) ELSE ToStr(month)

\* `${year}${month2digit}.${hostsById[HostCollectiveId].slug}.${fromCollective.slug}`
InvoiceSlugOf(year, month, hostId, fromId) ==
  ToStr(year) \o month2digit(month) \o <<DOT>> \o Collectives[hostId].slug
    \o <<DOT>> \o Collectives[fromId].slug

\* The position of the key in the object invoicesByKey (a list of invoices in
\* the order their keys were first set), 0 when it is not a key.
KeyIndex(byKey, slug) ==
  IF \E i \in 1..Len(byKey) : byKey[i].slug = slug
  THEN CHOOSE i \in 1..Len(byKey) : byKey[i].slug = slug
  ELSE 0

\* A faulty variant of TotalAmountOf: the group's total is overwritten.
TotalAmountOverwritten(byKey, slug, transaction) == transaction.amountInHostCurrency

\* The running total of a transaction's group.
TotalAmountOf(byKey, slug, transaction) ==
  IF KeyIndex(byKey, slug) # 0
  THEN byKey[KeyIndex(byKey, slug)].totalAmount + transaction.amountInHostCurrency
  ELSE transaction.amountInHostCurrency

\* A faulty variant of GroupTransaction: the key leaves the host out.
GroupTransactionIgnoringHost(byKey, transaction, fromId) ==
  LET createdAt == transaction.createdAt
      year == getFullYear(createdAt)
      month == getMonth(createdAt) + 1
      slug == ToStr(year) \o month2digit(month) \o <<DOT>> \o Collectives[fromId].slug
      invoice == [HostCollectiveId |-> transaction.HostCollectiveId,
                  FromCollectiveId |-> fromId,
                  slug |-> slug,
                  year |-> year,
                  month |-> month,
                  totalAmount |-> TotalAmountOf(byKey, slug, transaction),
                  currency |-> transaction.hostCurrency]
  IN  IF KeyIndex(byKey, slug) # 0
      THEN [byKey EXCEPT ![KeyIndex(byKey, slug)] = invoice]
      ELSE Append(byKey, invoice)

\* The body of the Promise.map callback after its host is known:
\* invoicesByKey[slug] = {...}.
GroupTransaction(byKey, transaction, fromId) ==
  LET HostCollectiveId == transaction.HostCollectiveId
      createdAt == transaction.createdAt
      year == getFullYear(createdAt)
      month == getMonth(createdAt) + 1
      slug == InvoiceSlugOf(year, month, HostCollectiveId, fromId)
      invoice == [HostCollectiveId |-> HostCollectiveId,
                  FromCollectiveId |-> fromId,
                  slug |-> slug,
                  year |-> year,
                  month |-> month,
                  totalAmount |-> TotalAmountOf(byKey, slug, transaction),
                  currency |-> transaction.hostCurrency]
  IN  IF KeyIndex(byKey, slug) # 0
      THEN [byKey EXCEPT ![KeyIndex(byKey, slug)] = invoice]
      ELSE Append(byKey, invoice)

\* A faulty variant of CompareInvoices: ascending.
CompareInvoicesAscending(a, b) == IF StrGt(a.slug, b.slug) THEN 1 ELSE -1

\* The comparator of invoices.sort.
CompareInvoices(a, b) == IF StrGt(a.slug, b.slug) THEN -1 ELSE 1

\* Array.prototype.sort with that comparator (insertion sort).
RECURSIVE InsertSorted(_, _)
InsertSorted(s, x) ==
  IF s = <<>> THEN <<x>>
  ELSE IF CompareInvoices(s[Len(s)], x) > 0
       THEN Append(InsertSorted(SubSeq(s, 1, Len(s) - 1), x), s[Len(s)])
       ELSE Append(s, x)

RECURSIVE SortInvoices(_)
SortInvoices(s) ==
  IF s = <<>> THEN <<>>
  ELSE InsertSorted(SortInvoices(SubSeq(s, 1, Len(s) - 1)), s[Len(s)])

\* -------------------------------------------------------------------- state
VARIABLES
  db,              \* the Transactions table, in id order
  args,            \* args[r]: the arguments and the caller of request r
  pc,              \* pc[r]: where the resolver of request r stands
  fromCollective,  \* fromCollective[r]: id of the billed collective, or NoId
  host,            \* host[r]: id of the host, or NoId
  transactions,    \* transactions[r]: the rows the request fetched
  cb,              \* cb[r][i]: state of the Promise.map callback of row i
  hostsById,       \* hostsById[r][id]: allInvoices' per-request host cache
  invoicesByKey,   \* invoicesByKey[r]: allInvoices' groups, in key order
  issued,          \* issued[r]: the queries the request sent, in order
  result           \* result[r]: what the request returned or threw

vars == <<db, args, pc, fromCollective, host, transactions, cb, hostsById,
          invoicesByKey, issued, result>>

Reqs == 1..MaxRequests

\* Keys of hostsById: a HostCollectiveId column value.
HostKeys == 0..(Len(Collectives) + 1)

NoDate == [year |-> <<>>, month |-> <<>>]

NoRequest ==
  [kind |-> "none", fromCollectiveSlug |-> <<>>, collectiveSlug |-> <<>>,
   dateFrom |-> NoDate, dateTo |-> NoDate, invoiceSlug |-> <<>>,
   transactionUuid |-> <<>>, remoteUser |-> NoId]

Pending == [status |-> "pending", err |-> NoError, invoices |-> <<>>, invoice |-> <<>>]

Thrown(e) == [status |-> "error", err |-> e, invoices |-> <<>>, invoice |-> <<>>]

Query(op, id, slug, startsAt, endsAt) ==
  [op |-> op, id |-> id, hostId |-> NoId, slug |-> slug,
   startsAt |-> startsAt, endsAt |-> endsAt]

\* Invoice's Transaction.findAll({ where }).
RangeQuery(fromId, hostId, startsAt, endsAt) ==
  [op |-> "Transaction.findAll", id |-> fromId, hostId |-> hostId, slug |-> <<>>,
   startsAt |-> startsAt, endsAt |-> endsAt]

\* The destructured arguments of Invoice: those of the slug when one is given.
InvoiceParams(a) ==
  IF a.invoiceSlug # <<>>
  THEN parseInvoiceSlug(a.invoiceSlug)
  ELSE [err |-> NoError, dateFrom |-> a.dateFrom, dateTo |-> a.dateTo,
        collectiveSlug |-> a.collectiveSlug,
        fromCollectiveSlug |-> a.fromCollectiveSlug]

\* The first error of parseInvoiceSlug, validateDate(dateFrom),
\* validateDate(dateTo), in that order; NoError when all three pass.
InvoiceArgsError(a) ==
  LET p == InvoiceParams(a)
  IN  IF p.err # NoError THEN p.err
      ELSE IF validateDate(p.dateFrom) # NoError THEN validateDate(p.dateFrom)
      ELSE validateDate(p.dateTo)

startsAtOf(a) == NewDate(InvoiceParams(a).dateFrom.year, InvoiceParams(a).dateFrom.month)

endsAtOf(a) == NewDate(InvoiceParams(a).dateTo.year, InvoiceParams(a).dateTo.month)

\* A faulty variant of DatesOutOfOrder: startsAt < endsAt.
DatesOutOfOrderSwapped(startsAt, endsAt) == DateLt(startsAt, endsAt)

\* endsAt < startsAt
DatesOutOfOrder(startsAt, endsAt) == DateLt(endsAt, startsAt)

Finish(r, res) ==
  /\ result' = [result EXCEPT ![r] = res]
  /\ pc' = [pc EXCEPT ![r] = "done"]

Send(r, q) == issued' = [issued EXCEPT ![r] = Append(@, q)]

InitWith(stores, first, others) ==
  /\ db \in stores
  /\ \E a \in first, o \in [Reqs \ {1} -> others] :
       args = [r \in Reqs |-> IF r = 1 THEN a ELSE o[r]]
  /\ pc = [r \in Reqs |-> IF args[r].kind = "none" THEN "done" ELSE "start"]
  /\ fromCollective = [r \in Reqs |-> NoId]
  /\ host = [r \in Reqs |-> NoId]
  /\ transactions = [r \in Reqs |-> <<>>]
  /\ cb = [r \in Reqs |-> <<>>]
  /\ hostsById = [r \in Reqs |-> [k \in HostKeys |-> NoId]]
  /\ invoicesByKey = [r \in Reqs |-> <<>>]
  /\ issued = [r \in Reqs |-> <<>>]
  /\ result = [r \in Reqs |-> Pending]

\* Two requests in flight: request 1 from `first`, request 2 from `second`.
InitPair(stores, first, second) ==
  /\ db \in stores
  /\ \E a \in first, b \in second :
       args = [r \in Reqs |-> IF r = 1 THEN a ELSE IF r = 2 THEN b ELSE NoRequest]
  /\ pc = [r \in Reqs |-> IF args[r].kind = "none" THEN "done" ELSE "start"]
  /\ fromCollective = [r \in Reqs |-> NoId]
  /\ host = [r \in Reqs |-> NoId]
  /\ transactions = [r \in Reqs |-> <<>>]
  /\ cb = [r \in Reqs |-> <<>>]
  /\ hostsById = [r \in Reqs |-> [k \in HostKeys |-> NoId]]
  /\ invoicesByKey = [r \in Reqs |-> <<>>]
  /\ issued = [r \in Reqs |-> <<>>]
  /\ result = [r \in Reqs |-> Pending]

\* ------------------------------------------------------ allInvoices.resolve
AllInvoicesStart(r) ==
  /\ args[r].kind = "allInvoices" /\ pc[r] = "start"
  /\ Send(r, Query("Collective.findOne", NoId, args[r].fromCollectiveSlug, 0, 0))
  /\ pc' = [pc EXCEPT ![r] = "awaitFrom"]
  /\ UNCHANGED <<db, args, fromCollective, host, transactions, cb, hostsById,
                 invoicesByKey, result>>

AllInvoicesFromResolved(r) ==
  /\ args[r].kind = "allInvoices" /\ pc[r] = "awaitFrom"
  /\ LET fc == findBySlug(args[r].fromCollectiveSlug)
     IN  /\ fromCollective' = [fromCollective EXCEPT ![r] = fc]
         /\ IF fc = NoId
            THEN Finish(r, Thrown(ErrFromNotFoundAll)) /\ UNCHANGED issued
            ELSE IF NotAdmin(args[r].remoteUser, fc)
            THEN Finish(r, Thrown(ErrUnauthorized)) /\ UNCHANGED issued
            ELSE /\ Send(r, Query("Transaction.findAll", fc, <<>>, 0, 0))
                 /\ pc' = [pc EXCEPT ![r] = "awaitTx"]
                 /\ UNCHANGED result
  /\ UNCHANGED <<db, args, host, transactions, cb, hostsById, invoicesByKey>>

\* Promise.map calls the callback of every row in one synchronous loop; a
\* callback runs until its first await, which it reaches unless hostsById
\* already holds its host.
RECURSIVE StartCallbacks(_, _, _, _)
StartCallbacks(st, rows, i, fromId) ==
  IF i > Len(rows) THEN st
  ELSE LET HostCollectiveId == rows[i].HostCollectiveId
       IN  IF st.hostsById[HostCollectiveId] # NoId
           THEN StartCallbacks(
                  [st EXCEPT !.cb = Append(@, "done"),
                             !.byKey = GroupTransaction(@, rows[i], fromId)],
                  rows, i + 1, fromId)
           ELSE StartCallbacks(
                  [st EXCEPT !.cb = Append(@, "awaiting"),
                             !.issued = Append(@, Query("Collective.findByPk",
                                                HostCollectiveId, <<>>, 0, 0))],
                  rows, i + 1, fromId)

AllInvoicesTxResolved(r) ==
  /\ args[r].kind = "allInvoices" /\ pc[r] = "awaitTx"
  /\ LET rows == SelectSeq(db, LAMBDA t : allInvoicesWhere(t, fromCollective[r]))
         st == StartCallbacks([hostsById |-> hostsById[r], byKey |-> <<>>,
                               cb |-> <<>>, issued |-> issued[r]],
                              rows, 1, fromCollective[r])
     IN  /\ transactions' = [transactions EXCEPT ![r] = rows]
         /\ cb' = [cb EXCEPT ![r] = st.cb]
         /\ invoicesByKey' = [invoicesByKey EXCEPT ![r] = st.byKey]
         /\ issued' = [issued EXCEPT ![r] = st.issued]
  /\ pc' = [pc EXCEPT ![r] = "mapping"]
  /\ UNCHANGED <<db, args, fromCollective, host, hostsById, result>>

\* A faulty variant of HostLookupResolved: invoicesByKey is one map that all
\* requests write to.
HostLookupResolvedSharedMap(r, i) ==
  /\ args[r].kind = "allInvoices" /\ pc[r] = "mapping"
  /\ i \in 1..Len(cb[r]) /\ cb[r][i] = "awaiting"
  /\ LET transaction == transactions[r][i]
         found == findByPk(transaction.HostCollectiveId)
     IN  /\ hostsById' = [hostsById EXCEPT ![r][transaction.HostCollectiveId] = found]
         /\ cb' = [cb EXCEPT ![r][i] = "done"]
         /\ IF found = NoId
            THEN Finish(r, Thrown(ErrTypeError)) /\ UNCHANGED invoicesByKey
            ELSE /\ invoicesByKey' =
                      [q \in Reqs |-> GroupTransaction(invoicesByKey[q], transaction,
                                                       fromCollective[r])]
                 /\ UNCHANGED <<pc, result>>
  /\ UNCHANGED <<db, args, fromCollective, host, transactions, issued>>

\* A faulty variant of HostLookupResolved: a row whose host is not found is
\* left out of the list.
HostLookupResolvedSkipping(r, i) ==
  /\ args[r].kind = "allInvoices" /\ pc[r] = "mapping"
  /\ i \in 1..Len(cb[r]) /\ cb[r][i] = "awaiting"
  /\ LET transaction == transactions[r][i]
         found == findByPk(transaction.HostCollectiveId)
     IN  /\ hostsById' = [hostsById EXCEPT ![r][transaction.HostCollectiveId] = found]
         /\ cb' = [cb EXCEPT ![r][i] = "done"]
         /\ invoicesByKey' = [invoicesByKey EXCEPT ![r] =
               IF found = NoId THEN @
               ELSE GroupTransaction(@, transaction, fromCollective[r])]
  /\ UNCHANGED <<db, args, pc, result, fromCollective, host, transactions, issued>>

\* The findByPk of one callback answers; the callback runs to its end.
HostLookupResolved(r, i) ==
  /\ args[r].kind = "allInvoices" /\ pc[r] = "mapping"
  /\ i \in 1..Len(cb[r]) /\ cb[r][i] = "awaiting"
  /\ LET transaction == transactions[r][i]
         HostCollectiveId == transaction.HostCollectiveId
         found == IF hostsById[r][HostCollectiveId] # NoId
                  THEN hostsById[r][HostCollectiveId]
                  ELSE findByPk(HostCollectiveId)
     IN  /\ hostsById' = [hostsById EXCEPT ![r][HostCollectiveId] = found]
         /\ cb' = [cb EXCEPT ![r][i] = "done"]
         /\ IF found = NoId
            THEN Finish(r, Thrown(ErrTypeError)) /\ UNCHANGED invoicesByKey
            ELSE /\ invoicesByKey' = [invoicesByKey EXCEPT ![r] =
                       GroupTransaction(@, transaction, fromCollective[r])]
                 /\ UNCHANGED <<pc, result>>
  /\ UNCHANGED <<db, args, fromCollective, host, transactions, issued>>

\* The findByPk of one callback is rejected: the await throws, the callback
\* rejects, and with it Promise.map and the resolver.
HostLookupRejected(r, i) ==
  /\ args[r].kind = "allInvoices" /\ pc[r] = "mapping"
  /\ i \in 1..Len(cb[r]) /\ cb[r][i] = "awaiting"
  /\ cb' = [cb EXCEPT ![r][i] = "rejected"]
  /\ Finish(r, Thrown(ErrDatabase))
  /\ UNCHANGED <<db, args, fromCollective, host, transactions, hostsById,
                 invoicesByKey, issued>>

\* Every callback has returned: Object.keys(invoicesByKey), sort, return.
AllInvoicesFinish(r) ==
  /\ args[r].kind = "allInvoices" /\ pc[r] = "mapping"
  /\ \A i \in 1..Len(cb[r]) : cb[r][i] = "done"
  /\ Finish(r, [status |-> "ok", err |-> NoError,
                invoices |-> SortInvoices(invoicesByKey[r]), invoice |-> <<>>])
  /\ UNCHANGED <<db, args, fromCollective, host, transactions, cb, hostsById,
                 invoicesByKey, issued>>

\* ---------------------------------------------------------- Invoice.resolve
RECURSIVE SumAmountInHostCurrency(_)
SumAmountInHostCurrency(rows) ==
  IF rows = <<>> THEN 0
  ELSE SumAmountInHostCurrency(SubSeq(rows, 1, Len(rows) - 1))
         + rows[Len(rows)].amountInHostCurrency

\* get(host, 'settings.invoiceTitle') || 'Donation Receipt'
TitleOf(hostId) ==
  IF hostId # NoId /\ Collectives[hostId].invoiceTitle # ""
  THEN Collectives[hostId].invoiceTitle
  ELSE "Donation Receipt"

\* The invoice Invoice builds from the rows it fetched (at least one).
\* A faulty variant of NoTransactions: an empty fetch is let through.
NoTransactionsNever(rows) == FALSE

\* transactions.length === 0
NoTransactions(rows) == Len(rows) = 0

\* The reduce runs over the fetched rows; over no rows it leaves the currency
\* unset and the total at 0.
RangeInvoice(a, fromId, hostId, rows) ==
  LET p == InvoiceParams(a)
      lastCurrency == IF Len(rows) = 0 THEN "" ELSE rows[Len(rows)].hostCurrency
  IN  [title |-> TitleOf(hostId),
       HostCollectiveId |-> hostId,
       slug |-> a.invoiceSlug,
       yearFrom |-> p.dateFrom.year,
       monthFrom |-> p.dateFrom.month,
       yearTo |-> p.dateTo.year,
       monthTo |-> p.dateTo.month,
       FromCollectiveId |-> fromId,
       totalAmount |-> SumAmountInHostCurrency(rows),
       currency |-> IF lastCurrency # "" THEN lastCurrency
                    ELSE Collectives[hostId].currency,
       transactions |-> rows]

InvoiceStart(r) ==
  /\ args[r].kind = "Invoice" /\ pc[r] = "start"
  /\ IF InvoiceArgsError(args[r]) # NoError
     THEN Finish(r, Thrown(InvoiceArgsError(args[r]))) /\ UNCHANGED issued
     ELSE /\ Send(r, Query("Collective.findOne", NoId,
                           InvoiceParams(args[r]).fromCollectiveSlug, 0, 0))
          /\ pc' = [pc EXCEPT ![r] = "awaitFrom"]
          /\ UNCHANGED result
  /\ UNCHANGED <<db, args, fromCollective, host, transactions, cb, hostsById,
                 invoicesByKey>>

InvoiceFromResolved(r) ==
  /\ args[r].kind = "Invoice" /\ pc[r] = "awaitFrom"
  /\ LET fc == findBySlug(InvoiceParams(args[r]).fromCollectiveSlug)
     IN  /\ fromCollective' = [fromCollective EXCEPT ![r] = fc]
         /\ IF fc = NoId
            THEN Finish(r, Thrown(ErrFromNotFound)) /\ UNCHANGED issued
            ELSE /\ Send(r, Query("Collective.findBySlug", NoId,
                                  InvoiceParams(args[r]).collectiveSlug, 0, 0))
                 /\ pc' = [pc EXCEPT ![r] = "awaitHost"]
                 /\ UNCHANGED result
  /\ UNCHANGED <<db, args, host, transactions, cb, hostsById, invoicesByKey>>

\* A faulty variant of InvoiceChecks: the admin check comes before the host
\* check.
InvoiceChecksAdminFirst(h, remoteUser, fromId, startsAt, endsAt) ==
  IF NotAdmin(remoteUser, fromId) THEN ErrUnauthorized
  ELSE IF h = NoId THEN ErrHostNotFound
  ELSE IF DatesOutOfOrder(startsAt, endsAt) THEN ErrDateOrder
  ELSE NoError

\* The checks between the answer of the host lookup and the fetch of the
\* transactions, in the order of the code: the error of the first that fails,
\* NoError when all pass.
InvoiceChecks(h, remoteUser, fromId, startsAt, endsAt) ==
  IF h = NoId THEN ErrHostNotFound
  ELSE IF NotAdmin(remoteUser, fromId) THEN ErrUnauthorized
  ELSE IF DatesOutOfOrder(startsAt, endsAt) THEN ErrDateOrder
  ELSE NoError

InvoiceHostResolved(r) ==
  /\ args[r].kind = "Invoice" /\ pc[r] = "awaitHost"
  /\ LET h == findBySlug(InvoiceParams(args[r]).collectiveSlug)
         startsAt == startsAtOf(args[r])
         endsAt == endsAtOf(args[r])
         failed == InvoiceChecks(h, args[r].remoteUser, fromCollective[r],
                                 startsAt, endsAt)
     IN  /\ host' = [host EXCEPT ![r] = h]
         /\ IF failed # NoError
            THEN Finish(r, Thrown(failed)) /\ UNCHANGED issued
            ELSE /\ Send(r, RangeQuery(fromCollective[r], h, startsAt, endsAt))
                 /\ pc' = [pc EXCEPT ![r] = "awaitTx"]
                 /\ UNCHANGED result
  /\ UNCHANGED <<db, args, fromCollective, transactions, cb, hostsById,
                 invoicesByKey>>

\* The rows answer.  A where clause that holds an Invalid Date is either
\* refused by the store or matches nothing.
InvoiceTxResolved(r) ==
  /\ args[r].kind = "Invoice" /\ pc[r] = "awaitTx"
  /\ LET startsAt == startsAtOf(args[r])
         endsAt == endsAtOf(args[r])
         rows == IF startsAt.valid /\ endsAt.valid
                 THEN SelectSeq(db, LAMBDA t :
                        InvoiceWhere(t, fromCollective[r], host[r], startsAt.t, endsAt.t))
                 ELSE <<>>
     IN  /\ transactions' = [transactions EXCEPT ![r] = rows]
         /\ IF NoTransactions(rows)
            THEN \E e \in IF startsAt.valid /\ endsAt.valid
                          THEN {ErrNoTransactions}
                          ELSE {ErrNoTransactions, ErrDatabase} :
                   Finish(r, Thrown(e))
            ELSE Finish(r, [status |-> "ok", err |-> NoError, invoices |-> <<>>,
                            invoice |-> <<RangeInvoice(args[r], fromCollective[r],
                                                       host[r], rows)>>])
  /\ UNCHANGED <<db, args, fromCollective, host, cb, hostsById, invoicesByKey,
                 issued>>

\* ----------------------------------------------- TransactionInvoice.resolve
\* Transaction.findOne({ where: { uuid } }): the rows with that uuid (none or one).
findByUuid(uuid) == SelectSeq(db, LAMBDA t : t.uuid = uuid)

\* A faulty variant of totalAmountInHostCurrency: the net amount of a debit
\* keeps its sign.
totalAmountInHostCurrencySigned(transaction) ==
  IF transaction.type = "CREDIT" THEN transaction.amount
  ELSE transaction.netAmountInCollectiveCurrency

\* transaction.type === 'CREDIT' ? transaction.amount
\*                               : transaction.netAmountInCollectiveCurrency * -1
totalAmountInHostCurrency(transaction) ==
  IF transaction.type = "CREDIT" THEN transaction.amount
  ELSE transaction.netAmountInCollectiveCurrency * (-1)

\* The invoice TransactionInvoice builds.
TransactionInvoiceOf(transactionUuid, transaction, hostId) ==
  [title |-> TitleOf(hostId),
   HostCollectiveId |-> hostId,
   slug |-> StrTransactionDash \o transactionUuid,
   currency |-> transaction.hostCurrency,
   FromCollectiveId |-> paymentMethodProviderCollectiveId(transaction),
   totalAmount |-> totalAmountInHostCurrency(transaction),
   transactions |-> <<transaction>>,
   yearFrom |-> getFullYear(transaction.createdAt),
   monthFrom |-> getMonth(transaction.createdAt) + 1,
   day |-> getDate(transaction.createdAt)]

TransactionInvoiceStart(r) ==
  /\ args[r].kind = "TransactionInvoice" /\ pc[r] = "start"
  /\ Send(r, Query("Transaction.findOne", NoId, args[r].transactionUuid, 0, 0))
  /\ pc' = [pc EXCEPT ![r] = "awaitTx"]
  /\ UNCHANGED <<db, args, fromCollective, host, transactions, cb, hostsById,
                 invoicesByKey, result>>

TransactionInvoiceTxResolved(r) ==
  /\ args[r].kind = "TransactionInvoice" /\ pc[r] = "awaitTx"
  /\ LET rows == findByUuid(args[r].transactionUuid)
     IN  /\ transactions' = [transactions EXCEPT ![r] = rows]
         /\ IF rows = <<>>
            THEN /\ Finish(r, Thrown(ErrTransactionNotFound))
                 /\ UNCHANGED <<fromCollective, issued>>
            ELSE /\ fromCollective' = [fromCollective EXCEPT ![r] =
                       paymentMethodProviderCollectiveId(rows[1])]
                 /\ Send(r, Query("Transaction.getHostCollective",
                                  rows[1].HostCollectiveId, <<>>, 0, 0))
                 /\ pc' = [pc EXCEPT ![r] = "awaitHost"]
                 /\ UNCHANGED result
  /\ UNCHANGED <<db, args, host, cb, hostsById, invoicesByKey>>

TransactionInvoiceHostResolved(r) ==
  /\ args[r].kind = "TransactionInvoice" /\ pc[r] = "awaitHost"
  /\ LET h == findByPk(transactions[r][1].HostCollectiveId)
     IN  /\ host' = [host EXCEPT ![r] = h]
         /\ Finish(r, [status |-> "ok", err |-> NoError, invoices |-> <<>>,
                       invoice |-> <<TransactionInvoiceOf(args[r].transactionUuid,
                                                          transactions[r][1], h)>>])
  /\ UNCHANGED <<db, args, fromCollective, transactions, cb, hostsById,
                 invoicesByKey, issued>>

\* ------------------------------------------------------- Collective.resolve
\* String.prototype.toLowerCase over the letters A..Z.
toLowerCase(str) ==
  [i \in 1..Len(str) |-> IF str[i] >= 65 /\ str[i] <= 90 THEN str[i] + 32 ELSE str[i]]

ErrProvideSlugOrId == Err("Error", "Please provide a slug or an id")

ErrCollectiveNotFound == Err("NotFound", "Collective not found")

\* !value of a promise: an object is never falsy, whatever it settles to.
IsFalsy(value) == FALSE

\* The promise that findBySlug or findByPk returns and the collective (NoId
\* for null) it settles to.
PromiseOf(CollectiveId) == [promise |-> TRUE, settlesTo |-> CollectiveId]

\* The synchronous body of the resolver.  `collective` is the promise of the
\* lookup, which the resolver returns as it is.
CollectiveStart(r) ==
  /\ args[r].kind = "Collective" /\ pc[r] = "start"
  /\ IF args[r].slug # <<>> \/ args[r].id # NoId
     THEN LET bySlug == args[r].slug # <<>>
              collective == IF bySlug
                            THEN PromiseOf(findBySlug(toLowerCase(args[r].slug)))
                            ELSE PromiseOf(findByPk(args[r].id))
          IN  /\ Send(r, IF bySlug
                         THEN Query("Collective.findBySlug", NoId,
                                    toLowerCase(args[r].slug), 0, 0)
                         ELSE Query("Collective.findByPk", args[r].id, <<>>, 0, 0))
              /\ IF IsFalsy(collective)
                 THEN Finish(r, Thrown(ErrCollectiveNotFound))
                 ELSE /\ pc' = [pc EXCEPT ![r] = "awaitCollective"]
                      /\ UNCHANGED result
     ELSE Finish(r, Thrown(ErrProvideSlugOrId)) /\ UNCHANGED issued
  /\ UNCHANGED <<db, args, fromCollective, host, transactions, cb, hostsById,
                 invoicesByKey>>

\* The returned promise settles: its value, null included, is the result.
CollectiveSettled(r) ==
  /\ args[r].kind = "Collective" /\ pc[r] = "awaitCollective"
  /\ LET found == IF args[r].slug # <<>>
                  THEN findBySlug(toLowerCase(args[r].slug))
                  ELSE findByPk(args[r].id)
     IN  Finish(r, [status |-> "ok", err |-> NoError, invoices |-> <<>>,
                    invoice |-> <<>>, collective |-> found])
  /\ UNCHANGED <<db, args, fromCollective, host, transactions, cb, hostsById,
                 invoicesByKey, issued>>

\* ------------------------------------------------------- allUpdates.resolve
\* The updates and the memberships of the store.  publishedAt is NoId (0) for
\* null: an update that is not published.
Updates ==
  << [id |-> 1, CollectiveId |-> 1, publishedAt |-> 0, createdAt |-> 5],
     [id |-> 2, CollectiveId |-> 1, publishedAt |-> 3, createdAt |-> 2],
     [id |-> 3, CollectiveId |-> 1, publishedAt |-> 3, createdAt |-> 1],
     [id |-> 4, CollectiveId |-> 2, publishedAt |-> 0, createdAt |-> 4],
     [id |-> 5, CollectiveId |-> 2, publishedAt |-> 6, createdAt |-> 4],
     [id |-> 6, CollectiveId |-> 3, publishedAt |-> 7, createdAt |-> 6] >>

Members ==
  << [MemberCollectiveId |-> 1, CollectiveId |-> 2, role |-> "HOST"],
     [MemberCollectiveId |-> 1, CollectiveId |-> 3, role |-> "ADMIN"],
     [MemberCollectiveId |-> 3, CollectiveId |-> 1, role |-> "HOST"],
     [MemberCollectiveId |-> 3, CollectiveId |-> 2, role |-> "HOST"] >>

ErrUpdatesCollectiveNotFound == Err("Error", "Collective not found")

\* A faulty variant of allUpdatesQuery: the updates of hosted collectives are
\* not filtered.
allUpdatesQueryHostedUnfiltered(a) ==
  [limit |-> a.limit,
   offset |-> a.offset,
   publishedAtNotNull |-> ~a.includeHostedCollectives
                          /\ NotAdmin(a.remoteUser, a.CollectiveId)]

\* The query as the synchronous part of the resolver leaves it: limit and
\* offset when given (0 when not), the order, and where.publishedAt =
\* { [Op.ne]: null } unless the caller is an admin of args.CollectiveId.
allUpdatesQuery(a) ==
  [limit |-> a.limit,
   offset |-> a.offset,
   publishedAtNotNull |-> NotAdmin(a.remoteUser, a.CollectiveId)]

\* Member.findAll({ where: { MemberCollectiveId, role: 'HOST' } })
\*   .map(member => member.CollectiveId)
HostedCollectiveIds(CollectiveId) ==
  {Members[m].CollectiveId :
     m \in {n \in 1..Len(Members) : /\ Members[n].MemberCollectiveId = CollectiveId
                                     /\ Members[n].role = "HOST"}}

\* getCollectiveIds()
getCollectiveIds(a) ==
  IF a.includeHostedCollectives THEN HostedCollectiveIds(a.CollectiveId)
  ELSE {a.CollectiveId}

\* order: [['publishedAt', 'DESC'], ['createdAt', 'DESC']], a null publishedAt
\* sorting first in descending order; ties in the order of the table.
UpdateBefore(a, b) ==
  LET pa == IF a.publishedAt = 0 THEN 1000 ELSE a.publishedAt
      pb == IF b.publishedAt = 0 THEN 1000 ELSE b.publishedAt
  IN  \/ pa > pb
      \/ pa = pb /\ a.createdAt > b.createdAt
      \/ pa = pb /\ a.createdAt = b.createdAt /\ a.id < b.id

RECURSIVE SortUpdates(_)
SortUpdates(rows) ==
  IF rows = {} THEN <<>>
  ELSE LET first == CHOOSE a \in rows : \A b \in rows \ {a} : UpdateBefore(a, b)
       IN  <<first>> \o SortUpdates(rows \ {first})

\* Update.findAll(query) with where.CollectiveId = { [Op.in]: collectiveIds }.
UpdateFindAll(query, collectiveIds) ==
  LET rows == {Updates[n] : n \in {m \in 1..Len(Updates) :
                 /\ Updates[m].CollectiveId \in collectiveIds
                 /\ query.publishedAtNotNull => Updates[m].publishedAt # 0}}
      sorted == SortUpdates(rows)
      from == IF query.offset < Len(sorted) THEN query.offset + 1 ELSE Len(sorted) + 1
      to == IF query.limit = 0 \/ from + query.limit - 1 > Len(sorted)
            THEN Len(sorted) ELSE from + query.limit - 1
  IN  SubSeq(sorted, from, to)

\* The synchronous body: the query is built and the collective asked of the
\* loader.
AllUpdatesStart(r) ==
  /\ args[r].kind = "allUpdates" /\ pc[r] = "start"
  /\ Send(r, Query("loaders.collective.findById.load", args[r].CollectiveId,
                   <<>>, 0, 0))
  /\ pc' = [pc EXCEPT ![r] = "awaitCollective"]
  /\ UNCHANGED <<db, args, fromCollective, host, transactions, cb, hostsById,
                 invoicesByKey, result>>

\* The loader answers: no collective is an error; otherwise getCollectiveIds()
\* asks for the members or resolves at once.
AllUpdatesCollectiveLoaded(r) ==
  /\ args[r].kind = "allUpdates" /\ pc[r] = "awaitCollective"
  /\ LET collective == findByPk(args[r].CollectiveId)
     IN  IF collective = NoId
         THEN Finish(r, Thrown(ErrUpdatesCollectiveNotFound)) /\ UNCHANGED issued
         ELSE /\ IF args[r].includeHostedCollectives
                 THEN Send(r, Query("Member.findAll", collective, <<>>, 0, 0))
                 ELSE UNCHANGED issued
              /\ pc' = [pc EXCEPT ![r] = "awaitCollectiveIds"]
              /\ UNCHANGED result
  /\ UNCHANGED <<db, args, fromCollective, host, transactions, cb, hostsById,
                 invoicesByKey>>

\* The ids are known: query.where.CollectiveId is set and the query sent.
AllUpdatesIdsResolved(r) ==
  /\ args[r].kind = "allUpdates" /\ pc[r] = "awaitCollectiveIds"
  /\ Send(r, [op |-> "Update.findAll", query |-> allUpdatesQuery(args[r]),
              collectiveIds |-> getCollectiveIds(args[r])])
  /\ pc' = [pc EXCEPT ![r] = "awaitUpdates"]
  /\ UNCHANGED <<db, args, fromCollective, host, transactions, cb, hostsById,
                 invoicesByKey, result>>

\* The updates answer.
AllUpdatesResolved(r) ==
  /\ args[r].kind = "allUpdates" /\ pc[r] = "awaitUpdates"
  /\ LET sent == issued[r][Len(issued[r])]
     IN  Finish(r, [status |-> "ok", err |-> NoError, invoices |-> <<>>,
                    invoice |-> <<>>,
                    updates |-> UpdateFindAll(sent.query, sent.collectiveIds)])
  /\ UNCHANGED <<db, args, fromCollective, host, transactions, cb, hostsById,
                 invoicesByKey, issued>>

\* ------------------------------------------------------------------ paginate
\* The values of a request field: undefined, a number (of a JSON body), a
\* string (of a body or of the query string), and NaN.
Undefined == [t |-> "undefined", n |-> 0, s |-> <<>>]
Num(n) == [t |-> "number", n |-> n, s |-> <<>>]
StrV(s) == [t |-> "string", n |-> 0, s |-> s]
NaN == [t |-> "NaN", n |-> 0, s |-> <<>>]

\* The truthiness of a value: undefined, NaN, 0 and '' are falsy.
Truthy(v) ==
  \/ v.t = "number" /\ v.n # 0
  \/ v.t = "string" /\ v.s # <<>>

\* a || b
OrElse(a, b) == IF Truthy(a) THEN a ELSE b

\* v * 1: Number(v).  The strings used are empty, digits, digits after a '-',
\* or hold a letter.
TimesOne(v) ==
  IF v.t = "number" THEN v
  ELSE IF v.t = "string"
       THEN IF IsNumeric(v.s) THEN Num(NumVal(v.s))
            ELSE IF v.s[1] = 45 /\ Len(v.s) > 1 /\ IsNumeric(Tail(v.s))
                 THEN Num(0 - NumVal(Tail(v.s)))
                 ELSE NaN
       ELSE NaN

\* options = { default: options.default || 100, min: options.min || 1,
\*             max: options.max || 100 }; an option left out is 0.
paginateOptions(options) ==
  [default |-> IF options.default # 0 THEN options.default ELSE 100,
   min |-> IF options.min # 0 THEN options.min ELSE 1,
   max |-> IF options.max # 0 THEN options.max ELSE 100]

\* A faulty variant of clampPerPage: the lower bound is not applied.
clampPerPageAbove(perPage, options) ==
  IF perPage > options.max THEN options.max ELSE perPage

\* perPage = perPage < options.min ? options.min : perPage;
\* perPage = perPage > options.max ? options.max : perPage;
clampPerPage(perPage, options) ==
  LET atLeast == IF perPage < options.min THEN options.min ELSE perPage
  IN  IF atLeast > options.max THEN options.max ELSE atLeast

\* page = page < 1 ? 1 : page
clampPage(page) == IF page < 1 THEN 1 ELSE page

\* The value of req.pagination: the since filter or what paginateOffset
\* returns, kept as its arguments.
SinceFilter(sinceId) ==
  [kind |-> "where id > sinceId", sinceId |-> sinceId, page |-> 0, perPage |-> 0]

paginateOffset(page, perPage) ==
  [kind |-> "paginateOffset", sinceId |-> Undefined, page |-> page,
   perPage |-> perPage]

NextCall(e) == [op |-> "next", err |-> e]

\* The middleware paginate(options) returns, run on a request: req.pagination
\* and the calls of next.
paginateMiddleware(rawOptions, req) ==
  LET options == paginateOptions(rawOptions)
      sinceId == OrElse(req.body.since_id, req.query.since_id)
      perPageGiven == TimesOne(OrElse(req.body.per_page, req.query.per_page))
      perPage == IF Truthy(perPageGiven) THEN perPageGiven.n ELSE options.default
      pageGiven == TimesOne(OrElse(req.body.page, req.query.page))
      page == IF Truthy(pageGiven) THEN pageGiven.n ELSE 1
  IN  IF Truthy(sinceId)
      THEN [pagination |-> SinceFilter(sinceId), calls |-> <<NextCall(NoError)>>]
      ELSE [pagination |-> paginateOffset(clampPage(page),
                                          clampPerPage(perPage, options)),
            calls |-> <<NextCall(NoError)>>]

\* One run of the middleware: it is synchronous.
Paginate(r) ==
  /\ args[r].kind = "paginate" /\ pc[r] = "start"
  /\ LET ran == paginateMiddleware(args[r].options, args[r])
     IN  /\ issued' = [issued EXCEPT ![r] = @ \o ran.calls]
         /\ Finish(r, [status |-> "ok", err |-> NoError, invoices |-> <<>>,
                       invoice |-> <<>>, pagination |-> ran.pagination])
  /\ UNCHANGED <<db, args, fromCollective, host, transactions, cb, hostsById,
                 invoicesByKey>>

\* -------------------------------------------------------------- authenticate
\* The errors User.auth reports: none, or one with a code and a message.
\* result[r].auth keeps what it reported to the callback.
NoAuthError == [given |-> FALSE, code |-> 0, message |-> ""]
AuthError(code, message) == [given |-> TRUE, code |-> code, message |-> message]

ErrInvalidLogin == Err("BadRequest", "Invalid username/email or password")
ErrServer(message) == Err("ServerError", message)

\* What User.auth may report: nothing, a refusal (400), or another failure.
AuthErrors ==
  {NoAuthError, AuthError(400, "bad login"), AuthError(401, "locked"),
   AuthError(500, "connection lost")}

\* (req.body && req.body[name]) || req.query[name]
Credential(req, name) ==
  OrElse(IF req.body.given THEN req.body[name] ELSE Undefined, req.query[name])

\* !(username || email) || !password
CredentialsMissing(req) ==
  \/ ~Truthy(OrElse(Credential(req, "username"), Credential(req, "email")))
  \/ ~Truthy(Credential(req, "password"))

\* A faulty variant of authCallback: a missing user is not refused.
authCallbackAnyUser(e, user) ==
  IF e.given
  THEN IF e.code = 400
       THEN [remoteUser |-> NoId, calls |-> <<NextCall(ErrInvalidLogin)>>]
       ELSE [remoteUser |-> NoId, calls |-> <<NextCall(ErrServer(e.message))>>]
  ELSE [remoteUser |-> user, calls |-> <<NextCall(NoError)>>]

\* The callback given to User.auth: what it leaves in req.remoteUser and its
\* calls of next.
authCallback(e, user) ==
  IF e.given
  THEN IF e.code = 400
       THEN [remoteUser |-> NoId, calls |-> <<NextCall(ErrInvalidLogin)>>]
       ELSE [remoteUser |-> NoId, calls |-> <<NextCall(ErrServer(e.message))>>]
  ELSE IF user = NoId
       THEN [remoteUser |-> NoId, calls |-> <<NextCall(ErrInvalidLogin)>>]
       ELSE [remoteUser |-> user, calls |-> <<NextCall(NoError)>>]

\* The outcome of the middleware: req.remoteUser, NoId while not set.
Authenticated(user) ==
  [status |-> "ok", err |-> NoError, invoices |-> <<>>, invoice |-> <<>>,
   remoteUser |-> user, auth |-> [e |-> NoAuthError, user |-> NoId]]

\* The synchronous body: next() when a credential is missing, User.auth
\* otherwise.
AuthenticateStart(r) ==
  /\ args[r].kind = "authenticate" /\ pc[r] = "start"
  /\ IF CredentialsMissing(args[r])
     THEN /\ Send(r, NextCall(NoError))
          /\ Finish(r, Authenticated(NoId))
     ELSE /\ Send(r, [op |-> "User.auth",
                      login |-> OrElse(Credential(args[r], "username"),
                                       Credential(args[r], "email")),
                      password |-> Credential(args[r], "password")])
          /\ pc' = [pc EXCEPT ![r] = "awaitAuth"]
          /\ UNCHANGED result
  /\ UNCHANGED <<db, args, fromCollective, host, transactions, cb, hostsById,
                 invoicesByKey>>

\* User.auth calls back, once, with an error or with a user or with neither.
AuthCallback(r) ==
  /\ args[r].kind = "authenticate" /\ pc[r] = "awaitAuth"
  /\ \E e \in AuthErrors, user \in {NoId} \cup Users :
       LET ran == authCallback(e, user)
       IN  /\ issued' = [issued EXCEPT ![r] = @ \o ran.calls]
           /\ Finish(r, [Authenticated(ran.remoteUser) EXCEPT !.auth = [e |-> e, user |-> user]])
  /\ UNCHANGED <<db, args, fromCollective, host, transactions, cb, hostsById,
                 invoicesByKey>>

Next ==
  \E r \in Reqs :
    \/ AllInvoicesStart(r)
    \/ AllInvoicesFromResolved(r)
    \/ AllInvoicesTxResolved(r)
    \/ \E i \in 1..MaxTx : HostLookupResolved(r, i)
    \/ \E i \in 1..MaxTx : HostLookupRejected(r, i)
    \/ AllInvoicesFinish(r)
    \/ InvoiceStart(r)
    \/ InvoiceFromResolved(r)
    \/ InvoiceHostResolved(r)
    \/ InvoiceTxResolved(r)
    \/ TransactionInvoiceStart(r)
    \/ TransactionInvoiceTxResolved(r)
    \/ TransactionInvoiceHostResolved(r)
    \/ CollectiveStart(r)
    \/ CollectiveSettled(r)
    \/ AllUpdatesStart(r)
    \/ AllUpdatesCollectiveLoaded(r)
    \/ AllUpdatesIdsResolved(r)
    \/ AllUpdatesResolved(r)
    \/ Paginate(r)
    \/ AuthenticateStart(r)
    \/ AuthCallback(r)

\* ------------------------------------------------------------ initial states
\* A row of the Transactions table as the donation helpers write it: the
\* host keeps a tenth, a DEBIT mirrors a CREDIT, the host currency is the
\* currency of the host.
Row(id, shape) ==
  LET credit == shape.type = "CREDIT"
      net == shape.amt - (shape.amt \div 10)
  IN  [id |-> id,
       uuid |-> <<117>> \o ToStr(id),
       type |-> shape.type,
       FromCollectiveId |-> shape.from,
       UsingVirtualCardFromCollectiveId |-> shape.uvc,
       HostCollectiveId |-> shape.host,
       createdAt |-> shape.createdAt,
       amountInHostCurrency |-> IF credit THEN shape.amt ELSE -net,
       hostCurrency |-> IF shape.host \in CollectiveIds
                        THEN Collectives[shape.host].currency ELSE "EUR",
       amount |-> IF credit THEN shape.amt ELSE -net,
       netAmountInCollectiveCurrency |-> IF credit THEN net ELSE -shape.amt]

Shape(type, from, uvc, h, createdAt, amt) ==
  [type |-> type, from |-> from, uvc |-> uvc, host |-> h,
   createdAt |-> createdAt, amt |-> amt]

\* Every table of at most n rows over a set of shapes.  Row i is worth
\* 100 * 2^(i-1), so that a sum of amounts tells which rows were summed.
Stores(shapes, rows) ==
  UNION {{[i \in 1..n |-> Row(i, [f[i] EXCEPT !.amt = 100 * (2 ^ (i - 1))])] :
            f \in [1..n -> shapes]} : n \in 0..rows}

\* Credits of payer 1 over two hosts, three months and both sides of a month
\* boundary, next to a debit of payer 1 and a credit of payer 2.
AggregationShapes ==
  {Shape("CREDIT", 1, NoId, h, t, 0) :
     h \in {3, 4},
     t \in {Ts(2016, 12, 1), Ts(2017, 10, 0), Ts(2017, 11, 0)}}
  \cup {Shape("DEBIT", 1, NoId, 3, Ts(2017, 10, 0), 0),
        Shape("CREDIT", 2, NoId, 3, Ts(2017, 10, 0), 0)}

\* Every combination of type, payer and virtual card emitter, on one host in
\* one month.
SelectionShapes ==
  {Shape(type, from, uvc, 3, Ts(2017, 10, 1), 0) :
     type \in {"CREDIT", "DEBIT"}, from \in {1, 2}, uvc \in {NoId, 1, 2}}

\* The donations of test/graphql.invoices.test.js, as many as the table holds.
FixtureShapes ==
  << Shape("CREDIT", 1, NoId, 3, Ts(2017, 9, 1), 1000),
     Shape("CREDIT", 1, NoId, 3, Ts(2017, 10, 1), 1000),
     Shape("CREDIT", 1, NoId, 3, Ts(2017, 10, 1), 500),
     Shape("CREDIT", 1, NoId, 3, Ts(2017, 11, 1), 500),
     Shape("CREDIT", 1, NoId, 3, Ts(2017, 11, 1), 500) >>

FixtureStore ==
  [i \in 1..(IF MaxTx < Len(FixtureShapes) THEN MaxTx ELSE Len(FixtureShapes))
     |-> Row(i, FixtureShapes[i])]

\* { year: '2017', month: '10' }
DateArg(year, month) == [year |-> ToStr(year), month |-> ToStr(month)]

AllInvoicesReq(slug, user) ==
  [NoRequest EXCEPT !.kind = "allInvoices", !.fromCollectiveSlug = slug,
                    !.remoteUser = user]

InvoiceReq(dateFrom, dateTo, fromSlug, hostSlug, user) ==
  [NoRequest EXCEPT !.kind = "Invoice", !.dateFrom = dateFrom, !.dateTo = dateTo,
                    !.fromCollectiveSlug = fromSlug, !.collectiveSlug = hostSlug,
                    !.remoteUser = user]

InvoiceSlugReq(slug, user) ==
  [NoRequest EXCEPT !.kind = "Invoice", !.invoiceSlug = slug, !.remoteUser = user]

TransactionInvoiceReq(uuid, user) ==
  [NoRequest EXCEPT !.kind = "TransactionInvoice", !.transactionUuid = uuid,
                    !.remoteUser = user]

\* Collective(slug, id); an argument left out is <<>> or NoId.
CollectiveReq(slug, id) ==
  [kind |-> "Collective", slug |-> slug, id |-> id, remoteUser |-> NoId]

\* allUpdates(CollectiveId, includeHostedCollectives, limit, offset); a limit
\* or an offset left out is 0.
AllUpdatesReq(CollectiveId, includeHostedCollectives, limit, offset, user) ==
  [kind |-> "allUpdates", CollectiveId |-> CollectiveId,
   includeHostedCollectives |-> includeHostedCollectives,
   limit |-> limit, offset |-> offset, remoteUser |-> user]

\* A request through paginate(options): since_id, per_page and page of
\* req.body and of req.query.
PageFields(since_id, per_page, page) ==
  [since_id |-> since_id, per_page |-> per_page, page |-> page]

PaginateReq(options, body, query) ==
  [kind |-> "paginate", options |-> options, body |-> body, query |-> query,
   remoteUser |-> NoId]

\* A request through authenticate: username, email and password of req.body
\* (which may be left undefined) and of req.query.
Credentials(username, email, password) ==
  [given |-> TRUE, username |-> username, email |-> email, password |-> password]

NoBody ==
  [given |-> FALSE, username |-> Undefined, email |-> Undefined,
   password |-> Undefined]

AuthenticateReq(body, query) ==
  [kind |-> "authenticate", body |-> body, query |-> query, remoteUser |-> NoId]

NoOptions == [default |-> 0, min |-> 0, max |-> 0]

Callers == {NoId} \cup Users

PayerSlugs == {Collectives[1].slug, Collectives[2].slug, UnknownSlug}

HostSlugs == {Collectives[3].slug, Collectives[4].slug, UnknownSlug}

\* '201710.g.x'
FixtureSlug ==
  ToStr(201710) \o <<DOT>> \o Collectives[3].slug \o <<DOT>> \o Collectives[1].slug

\* One request or two of every resolver.
CoreRequests ==
  {AllInvoicesReq(Collectives[1].slug, u) : u \in {NoId, 1}}
  \cup {AllInvoicesReq(UnknownSlug, 1)}
  \cup {InvoiceReq(DateArg(2017, 10), DateArg(2017, 11), Collectives[1].slug,
                   Collectives[3].slug, 1)}
  \cup {InvoiceSlugReq(FixtureSlug, 1), InvoiceSlugReq(ToStr(2017), 1)}
  \cup {TransactionInvoiceReq(<<117>> \o ToStr(n), NoId) : n \in {1, MaxTx + 1}}
  \cup {CollectiveReq(Collectives[1].slug, NoId)}
  \cup {AllUpdatesReq(1, TRUE, 0, 0, 1)}
  \cup {AuthenticateReq(Credentials(Undefined, StrV(<<101>>), StrV(<<112>>)),
                        Credentials(Undefined, Undefined, Undefined))}
  \cup {PaginateReq(NoOptions, PageFields(Undefined, Undefined, Undefined),
                    PageFields(Undefined, StrV(<<51, 48>>), StrV(<<50>>)))}

\* Requests of every resolver, by every caller.
BaseRequests ==
  CoreRequests
  \cup {AllInvoicesReq(s, u) : s \in PayerSlugs, u \in Callers}
  \cup {InvoiceReq(DateArg(2017, 10), DateArg(2017, 11), s, h, u) :
          s \in {Collectives[1].slug, UnknownSlug}, h \in HostSlugs, u \in Callers}
  \cup {TransactionInvoiceReq(<<117>> \o ToStr(n), u) :
          n \in 1..(MaxTx + 1), u \in Callers}

\* Both payers asking for their own invoices.
PayerRequests ==
  {AllInvoicesReq(Collectives[u].slug, u) : u \in Users}
  \cup {InvoiceReq(DateArg(2017, 10), DateArg(2017, 11), Collectives[u].slug,
                   Collectives[3].slug, u) : u \in Users}

\* Date ranges of one month, of several months, empty and reversed.
RangeRequests ==
  {InvoiceReq(d[1], d[2], Collectives[1].slug, h, 1) :
     d \in {<<DateArg(2016, 12), DateArg(2017, 11)>>,
            <<DateArg(2017, 10), DateArg(2017, 10)>>,
            <<DateArg(2017, 11), DateArg(2017, 10)>>},
     h \in {Collectives[3].slug, Collectives[4].slug}}

\* The dates of the tests: before 2015, month 0, month 13, and valid ones.
DateArgs ==
  {DateArg(2014, 6), DateArg(2017, 0), DateArg(2017, 13), DateArg(2015, 1),
   DateArg(2016, 12), DateArg(2017, 10), DateArg(2017, 11)}

DateRequests ==
  {InvoiceReq(f, t, s, h, u) :
     f \in DateArgs, t \in DateArgs,
     s \in {Collectives[1].slug, UnknownSlug},
     h \in {Collectives[3].slug, UnknownSlug},
     u \in Callers}

\* `${year}${month2digit}.${hostSlug}.${fromCollectiveSlug}` over slugs given
\* as text.
SlugText(year, month, hostSlug, fromSlug) ==
  ToStr(year) \o month2digit(month) \o <<DOT>> \o hostSlug \o <<DOT>> \o fromSlug

SlugYears == {MinYear, 2017}

SlugMonths == {1, 9, 10, 12}

\* 'g', 'gh', 'g.h' and a slug no collective has.
SlugHosts == {Collectives[3].slug, Collectives[4].slug, <<103, DOT, 104>>, UnknownSlug}

\* 'x', 'x.y' and a slug no collective has.
SlugPayers == {Collectives[1].slug, <<120, DOT, 121>>, UnknownSlug}

WellFormedSlugs ==
  {SlugText(y, m, h, p) :
     y \in SlugYears, m \in SlugMonths, h \in SlugHosts, p \in SlugPayers}

\* '201710..x', '201410.g.x', '201700.g.x', '201713.g.x', '2017ab.g.x',
\* 'abcd10.g.x', '201710.x', '201710'.
MalformedSlugs ==
  {ToStr(201710) \o <<DOT, DOT, 120>>,
   SlugText(2014, 10, Collectives[3].slug, Collectives[1].slug),
   ToStr(201700) \o <<DOT, 103, DOT, 120>>,
   ToStr(201713) \o <<DOT, 103, DOT, 120>>,
   ToStr(2017) \o <<97, 98, DOT, 103, DOT, 120>>,
   <<97, 98, 99, 100>> \o ToStr(10) \o <<DOT, 103, DOT, 120>>,
   ToStr(201710) \o <<DOT, 120>>,
   ToStr(201710)}

SlugRequests ==
  {InvoiceSlugReq(s, u) : s \in WellFormedSlugs \cup MalformedSlugs, u \in {NoId, 1}}

\* A credit of 1000, a debit whose netAmountInCollectiveCurrency is -800, and
\* a credit on the other host.
LedgerShapes ==
  << Shape("CREDIT", 1, NoId, 3, Ts(2017, 10, 1), 1000),
     Shape("DEBIT", 1, NoId, 3, Ts(2017, 10, 1), 800),
     Shape("CREDIT", 2, 1, 4, Ts(2017, 12, 1), 500) >>

LedgerStore ==
  [i \in 1..(IF MaxTx < Len(LedgerShapes) THEN MaxTx ELSE Len(LedgerShapes))
     |-> Row(i, LedgerShapes[i])]

\* Credits of payer 1 over two hosts and two months, each recorded in either
\* host currency: rows of one host and month need not share a hostCurrency.
TwinShapes ==
  {Shape("CREDIT", 1, NoId, h, t, 0) :
     h \in {3, 4}, t \in {Ts(2017, 10, 0), Ts(2017, 11, 0)}}

HostCurrencies == {"EUR", "USD"}

TwinStores ==
  UNION {{[i \in 1..n |->
             [Row(i, [f[i][1] EXCEPT !.amt = 100 * (2 ^ (i - 1))])
                EXCEPT !.hostCurrency = f[i][2]]] :
            f \in [1..n -> TwinShapes \X HostCurrencies]} : n \in 0..(MaxTx - 1)}

\* The payer asking for the list of their invoices.
TwinRequest == AllInvoicesReq(Collectives[1].slug, 1)

\* Invoice by the payer, for every slug allInvoices can build over
\* AggregationShapes.
ListedSlugRequests ==
  {InvoiceSlugReq(InvoiceSlugOf(getFullYear(sh.createdAt), getMonth(sh.createdAt) + 1,
                                sh.host, 1), 1) :
     sh \in {x \in AggregationShapes : x.from = 1}}

\* Credits of payer 1 on host 'g' (currency EUR) in October 2017, each with
\* its hostCurrency unset, 'EUR' or 'USD'.
RecordedCurrencies == {"", "EUR", "USD"}

CurrencyStores ==
  UNION {{[i \in 1..n |->
             [Row(i, Shape("CREDIT", 1, NoId, 3, Ts(2017, 10, 1), 100 * (2 ^ (i - 1))))
                EXCEPT !.hostCurrency = f[i]]] :
            f \in [1..n -> RecordedCurrencies]} : n \in 0..(MaxTx - 1)}

\* Credits of payer 1 in October 2017 on host 'g', on a host that no
\* collective is (any more), and with no HostCollectiveId.
MissingHostId == Len(Collectives) + 1

HostShapes ==
  {Shape("CREDIT", 1, NoId, h, Ts(2017, 10, 1), 0) : h \in {3, MissingHostId, NoId}}

\* Credits of payers 1 and 2 on two hosts in October 2017.
PairShapes ==
  {Shape("CREDIT", from, NoId, h, Ts(2017, 10, 1), 0) : from \in {1, 2}, h \in {3, 4}}

\* Collective by a slug, by an id, by both and by neither: 'x', 'X' (which
\* is looked up as 'x'), a slug and an id that no collective has.
CollectiveRequests ==
  {CollectiveReq(slug, id) :
     slug \in {<<>>, Collectives[1].slug, <<88>>, UnknownSlug},
     id \in {NoId, 2, MissingHostId}}

\* The updates of a collective the caller is or is not an admin of, of a host
\* and of a collective that does not exist, with and without those of the
\* hosted collectives, whole or a page.
AllUpdatesRequests ==
  {AllUpdatesReq(c, hosted, limit, offset, u) :
     c \in {1, 2, 3, MissingHostId}, hosted \in BOOLEAN,
     limit \in {0, 1}, offset \in {0, 1}, u \in Callers}

\* The options of paginate: none, bounds around the default, a default above
\* max, a default below min, and a min above the max left out.
PaginateOptions ==
  {NoOptions,
   [default |-> 20, min |-> 5, max |-> 50],
   [default |-> 500, min |-> 0, max |-> 10],
   [default |-> 2, min |-> 10, max |-> 0],
   [default |-> 0, min |-> 200, max |-> 0]}

\* since_id, per_page and page of the body: left out, 0, negative, within
\* and above the bounds; of the query string: left out, '', a number, a
\* negative number, not a number.
PaginateBodies ==
  {PageFields(since_id, per_page, page) :
     since_id \in {Undefined, Num(0), Num(7)},
     per_page \in {Undefined, Num(0), Num(0 - 5), Num(30), Num(1000)},
     page \in {Undefined, Num(0), Num(0 - 2), Num(3)}}

PaginateQueries ==
  {PageFields(since_id, per_page, page) :
     since_id \in {Undefined, StrV(<<>>), StrV(<<55>>)},
     per_page \in {Undefined, StrV(<<97, 98, 99>>), StrV(<<51, 48>>),
                   StrV(<<45, 53>>)},
     page \in {Undefined, StrV(<<50>>), StrV(<<120>>)}}

PaginateRequests ==
  {PaginateReq(options, body, query) :
     options \in PaginateOptions, body \in PaginateBodies,
     query \in PaginateQueries}

\* Credentials left out, empty or given, in the body, in the query string or
\* in both, with and without a body.
CredentialSets ==
  {Credentials(username, email, password) :
     username \in {Undefined, StrV(<<117>>)},
     email \in {Undefined, StrV(<<101>>)},
     password \in {Undefined, StrV(<<>>), StrV(<<112>>)}}

AuthenticateRequests ==
  {AuthenticateReq(body, query) :
     body \in {NoBody} \cup CredentialSets, query \in CredentialSets}

Init ==
  InitWith(Stores(AggregationShapes, MaxTx),
           CoreRequests \cup RangeRequests \cup PayerRequests, {NoRequest})

Spec == Init /\ [][Next]_vars

InitSelection ==
  InitWith(Stores(SelectionShapes, MaxTx - 1), CoreRequests \cup PayerRequests,
           {NoRequest})

SpecSelection == InitSelection /\ [][Next]_vars

InitDates ==
  InitWith({FixtureStore, <<>>}, BaseRequests \cup DateRequests, {NoRequest})

SpecDates == InitDates /\ [][Next]_vars

InitSlugs ==
  InitWith({FixtureStore, LedgerStore}, BaseRequests \cup SlugRequests, {NoRequest})

SpecSlugs == InitSlugs /\ [][Next]_vars

\* The same allInvoices request a second time, next to one request of every
\* resolver.
InitTwin ==
  \/ InitPair(TwinStores, {TwinRequest}, {TwinRequest})
  \/ InitWith({FixtureStore}, CoreRequests, {NoRequest})

SpecTwin == InitTwin /\ [][Next]_vars

\* Payer 2 asking for their invoices next to payer 1 asking for theirs (or to
\* one request of another resolver).
InitPayers ==
  \/ InitPair(Stores(PairShapes, MaxTx), {TwinRequest},
              {AllInvoicesReq(Collectives[2].slug, 2)})
  \/ InitWith({FixtureStore}, CoreRequests, {NoRequest})

SpecPayers == InitPayers /\ [][Next]_vars

InitCollective ==
  InitWith({FixtureStore, <<>>}, BaseRequests \cup CollectiveRequests, {NoRequest})

SpecCollective == InitCollective /\ [][Next]_vars

InitAuthenticate ==
  InitWith({FixtureStore}, CoreRequests \cup AuthenticateRequests, {NoRequest})

SpecAuthenticate == InitAuthenticate /\ [][Next]_vars

InitPaginate ==
  InitWith({FixtureStore}, CoreRequests \cup PaginateRequests, {NoRequest})

SpecPaginate == InitPaginate /\ [][Next]_vars

InitUpdates ==
  InitWith({FixtureStore}, CoreRequests \cup AllUpdatesRequests, {NoRequest})

SpecUpdates == InitUpdates /\ [][Next]_vars

InitHosts == InitWith(Stores(HostShapes, MaxTx), CoreRequests, {NoRequest})

SpecHosts == InitHosts /\ [][Next]_vars

InitCurrency == InitWith(CurrencyStores, CoreRequests, {NoRequest})

SpecCurrency == InitCurrency /\ [][Next]_vars

\* An Invoice request by slug next to an allInvoices request (or one request
\* of another resolver) over the same table.
InitListed ==
  \/ InitPair(Stores(AggregationShapes, MaxTx - 1), {TwinRequest}, ListedSlugRequests)
  \/ InitWith({FixtureStore}, CoreRequests, {NoRequest})

SpecListed == InitListed /\ [][Next]_vars

\* --------------------------------------------------------------- properties
Returned(r, kind) == args[r].kind = kind /\ result[r].status = "ok"

\* The fetched rows of request r created in that year and month for that host.
RowsOfGroup(r, year, month, hostId) ==
  SelectSeq(transactions[r], LAMBDA t :
    /\ getFullYear(t.createdAt) = year
    /\ getMonth(t.createdAt) + 1 = month
    /\ t.HostCollectiveId = hostId)

\* The (year, month, host) combinations among the fetched rows of request r.
GroupsOf(r) ==
  {<<getFullYear(transactions[r][i].createdAt),
     getMonth(transactions[r][i].createdAt) + 1,
     transactions[r][i].HostCollectiveId>> : i \in 1..Len(transactions[r])}

\* C1: every invoice allInvoices returns has as totalAmount the sum of
\* amountInHostCurrency over exactly the fetched rows of its year, month and
\* host, in whatever order the host lookups of the rows answered.
C1_TotalIsSumOfGroup ==
  \A r \in Reqs :
    Returned(r, "allInvoices") =>
      \A k \in 1..Len(result[r].invoices) :
        LET inv == result[r].invoices[k]
        IN  inv.totalAmount =
              SumAmountInHostCurrency(
                RowsOfGroup(r, inv.year, inv.month, inv.HostCollectiveId))

\* Three rows were fetched, rows 1 and 3 of one group and row 2 of another,
\* and the lookup of row 2 answered first.
C1_Witness ==
  \E r \in Reqs :
    /\ Returned(r, "allInvoices")
    /\ Len(transactions[r]) = 3
    /\ Len(result[r].invoices) = 2
    /\ Len(RowsOfGroup(r, getFullYear(transactions[r][1].createdAt),
                       getMonth(transactions[r][1].createdAt) + 1,
                       transactions[r][1].HostCollectiveId)) = 2
    /\ getMonth(transactions[r][3].createdAt) = getMonth(transactions[r][1].createdAt)
    /\ transactions[r][3].HostCollectiveId = transactions[r][1].HostCollectiveId
    /\ invoicesByKey[r][1].HostCollectiveId = transactions[r][2].HostCollectiveId
    /\ invoicesByKey[r][1].month = getMonth(transactions[r][2].createdAt) + 1

\* C2: allInvoices returns exactly one invoice for each (year, month, host)
\* combination of the fetched rows and none for any other combination.
C2_OneInvoicePerGroup ==
  \A r \in Reqs :
    Returned(r, "allInvoices") =>
      LET invs == result[r].invoices
      IN  /\ Len(invs) = Cardinality(GroupsOf(r))
          /\ \A g \in GroupsOf(r) :
               Cardinality({k \in 1..Len(invs) :
                 <<invs[k].year, invs[k].month, invs[k].HostCollectiveId>> = g}) = 1
          /\ \A k \in 1..Len(invs) :
               <<invs[k].year, invs[k].month, invs[k].HostCollectiveId>> \in GroupsOf(r)

\* Three fetched rows of two hosts in one month and of one host in two months:
\* three invoices.
C2_Witness ==
  \E r \in Reqs :
    /\ Returned(r, "allInvoices")
    /\ Len(transactions[r]) = 3
    /\ Cardinality(GroupsOf(r)) = 3
    /\ \E i, j \in 1..3 :
         /\ transactions[r][i].createdAt = transactions[r][j].createdAt
         /\ transactions[r][i].HostCollectiveId # transactions[r][j].HostCollectiveId
    /\ \E i, j \in 1..3 :
         /\ transactions[r][i].createdAt # transactions[r][j].createdAt
         /\ transactions[r][i].HostCollectiveId = transactions[r][j].HostCollectiveId

\* C3: the list allInvoices returns is strictly descending by slug, and no
\* invoice of a later calendar month comes after one of an earlier month.
C3_SortedDescending ==
  \A r \in Reqs :
    Returned(r, "allInvoices") =>
      LET invs == result[r].invoices
      IN  /\ \A k \in 1..(Len(invs) - 1) : StrGt(invs[k].slug, invs[k + 1].slug)
          /\ \A k, l \in 1..Len(invs) :
               k < l => invs[k].year * 12 + invs[k].month
                          >= invs[l].year * 12 + invs[l].month

\* Three invoices of two years whose groups were created oldest first.
C3_Witness ==
  \E r \in Reqs :
    /\ Returned(r, "allInvoices")
    /\ Len(result[r].invoices) = 3
    /\ result[r].invoices[1].year # result[r].invoices[3].year
    /\ invoicesByKey[r][1] = result[r].invoices[3]
    /\ invoicesByKey[r][3] = result[r].invoices[1]

\* The slug of the billed collective a request names.
FromSlugOf(a) ==
  IF a.kind = "Invoice" THEN InvoiceParams(a).fromCollectiveSlug
  ELSE a.fromCollectiveSlug

\* The caller is logged out, or is not an admin of the collective.
CallerIsNoAdminOf(a, CollectiveId) ==
  a.remoteUser = NoId \/ ~isAdmin(a.remoteUser, CollectiveId)

\* The request sent a Transaction.findAll.
SentFindAll(r) ==
  \E n \in 1..Len(issued[r]) : issued[r][n].op = "Transaction.findAll"

\* C4: allInvoices and Invoice, asked for an existing billed collective (and,
\* for Invoice, with valid dates and an existing host) by a caller that is
\* logged out or no admin of that collective, end in Unauthorized with the
\* message "You don't have permission to access invoices for this user" and
\* return no invoice.
C4_NonAdminIsRefused ==
  \A r \in Reqs :
    ( /\ args[r].kind \in {"allInvoices", "Invoice"}
      /\ pc[r] = "done"
      /\ findBySlug(FromSlugOf(args[r])) # NoId
      /\ args[r].kind = "Invoice" =>
           /\ InvoiceArgsError(args[r]) = NoError
           /\ findBySlug(InvoiceParams(args[r]).collectiveSlug) # NoId
      /\ CallerIsNoAdminOf(args[r], findBySlug(FromSlugOf(args[r]))) )
    => /\ result[r].status = "error"
       /\ result[r].err.error = "Unauthorized"
       /\ result[r].err.message =
            "You don't have permission to access invoices for this user"
       /\ result[r].invoices = <<>> /\ result[r].invoice = <<>>

\* An Invoice request of user 2 for collective 1 and an existing host ended.
C4_Witness ==
  \E r \in Reqs :
    /\ args[r].kind = "Invoice" /\ pc[r] = "done"
    /\ args[r].remoteUser = 2
    /\ fromCollective[r] = 1 /\ host[r] = 3
    /\ result[r].err = ErrUnauthorized

\* The same for allInvoices, asked by a logged-out caller.
C4_WitnessAllInvoices ==
  \E r \in Reqs :
    /\ args[r].kind = "allInvoices" /\ pc[r] = "done"
    /\ args[r].remoteUser = NoId
    /\ fromCollective[r] = 1
    /\ result[r].err = ErrUnauthorized

\* C5: TransactionInvoice, asked for an existing transaction by a caller that
\* is logged out or no admin of the billed collective of the transaction,
\* ends in Unauthorized and returns no invoice.
C5_TransactionInvoiceRefusesNonAdmin ==
  \A r \in Reqs :
    ( /\ args[r].kind = "TransactionInvoice"
      /\ pc[r] = "done"
      /\ findByUuid(args[r].transactionUuid) # <<>>
      /\ CallerIsNoAdminOf(args[r],
           paymentMethodProviderCollectiveId(findByUuid(args[r].transactionUuid)[1])) )
    => /\ result[r].status = "error"
       /\ result[r].err.error = "Unauthorized"
       /\ result[r].invoice = <<>>

\* The rows of the table billed to payer P, as the claim states it.
IsBilledCredit(t, P) ==
  /\ t.type = "CREDIT"
  /\ \/ (t.FromCollectiveId = P /\ t.UsingVirtualCardFromCollectiveId = NoId)
     \/ t.UsingVirtualCardFromCollectiveId = P

\* The sum of totalAmount over a list of invoices.
RECURSIVE SumTotalAmount(_)
SumTotalAmount(invs) ==
  IF invs = <<>> THEN 0
  ELSE SumTotalAmount(SubSeq(invs, 1, Len(invs) - 1)) + invs[Len(invs)].totalAmount

\* C6: the rows allInvoices fetches for payer P are exactly the CREDIT rows
\* with (FromCollectiveId = P and no virtual card) or with the virtual card of
\* P, and the rows Invoice fetches are exactly those of them of its host and
\* date range; so the invoices of P add up to exactly these rows: a credit
\* made from X with a card of Y counts for Y and not for X, a DEBIT for nobody.
C6_BilledRowsSelected ==
  \A r \in Reqs :
    /\ (args[r].kind = "allInvoices" /\ pc[r] \in {"mapping", "done"} /\ SentFindAll(r))
         => transactions[r] =
              SelectSeq(db, LAMBDA t : IsBilledCredit(t, fromCollective[r]))
    /\ Returned(r, "allInvoices")
         => SumTotalAmount(result[r].invoices) =
              SumAmountInHostCurrency(
                SelectSeq(db, LAMBDA t : IsBilledCredit(t, fromCollective[r])))
    /\ (args[r].kind = "Invoice" /\ pc[r] = "done" /\ SentFindAll(r))
         => transactions[r] =
              SelectSeq(db, LAMBDA t :
                /\ IsBilledCredit(t, fromCollective[r])
                /\ t.HostCollectiveId = host[r]
                /\ t.createdAt >= startsAtOf(args[r]).t
                /\ t.createdAt < endsAtOf(args[r]).t)

\* The table holds a credit from collective 2 made with a card of collective 1
\* and a debit of collective 1; allInvoices of collective 1 returned the credit.
C6_Witness ==
  \E r \in Reqs :
    /\ Returned(r, "allInvoices")
    /\ fromCollective[r] = 1
    /\ \E i, j \in 1..Len(db) :
         /\ db[i].type = "CREDIT" /\ db[i].FromCollectiveId = 2
         /\ db[i].UsingVirtualCardFromCollectiveId = 1
         /\ db[j].type = "DEBIT" /\ db[j].FromCollectiveId = 1
         /\ db[j].UsingVirtualCardFromCollectiveId = NoId
         /\ transactions[r] = <<db[i]>>

\* The table holds a credit from collective 1 made with a card of collective 2;
\* Invoice of collective 2 returned it.
C6_WitnessInvoice ==
  \E r \in Reqs :
    /\ Returned(r, "Invoice")
    /\ fromCollective[r] = 2
    /\ \E i \in 1..Len(db) :
         /\ db[i].type = "CREDIT" /\ db[i].FromCollectiveId = 1
         /\ db[i].UsingVirtualCardFromCollectiveId = 2
         /\ transactions[r] = <<db[i]>>

\* year < 2015 or month < 1 or month > 12, of a date whose parts are numbers.
IsInvalidDate(d) ==
  NumVal(d.year) < 2015 \/ NumVal(d.month) < 1 \/ NumVal(d.month) > 12

\* C7: validateDate throws ValidationFailed ('Invalid date object...')
\* exactly when year < 2015 or month < 1 or month > 12 ({2014,6}, {2017,0}
\* and {2017,13} fail, {2015,1} passes), and Invoice fails with that error
\* exactly when dateFrom or dateTo is such a date.
C7_ValidateDate ==
  /\ validateDate(DateArg(2014, 6)) = ErrInvalidDate
  /\ validateDate(DateArg(2017, 0)) = ErrInvalidDate
  /\ validateDate(DateArg(2017, 13)) = ErrInvalidDate
  /\ validateDate(DateArg(2015, 1)) = NoError
  /\ \A r \in Reqs :
       (args[r].kind = "Invoice" /\ args[r].invoiceSlug = <<>>) =>
         /\ (validateDate(args[r].dateFrom) = ErrInvalidDate
               <=> IsInvalidDate(args[r].dateFrom))
         /\ (validateDate(args[r].dateFrom) = NoError
               <=> ~IsInvalidDate(args[r].dateFrom))
         /\ pc[r] # "start" =>
              ( ( /\ result[r].status = "error"
                  /\ result[r].err.error = "ValidationFailed"
                  /\ result[r].err.message =
                       "Invalid date object. Must have a valid month, where 1 == January, and be after 2014" )
                <=> (IsInvalidDate(args[r].dateFrom) \/ IsInvalidDate(args[r].dateTo)) )

\* Invoice failed on a dateTo of month 13 after a valid dateFrom of 2015-01.
C7_Witness ==
  \E r \in Reqs :
    /\ args[r].kind = "Invoice" /\ pc[r] = "done"
    /\ args[r].dateFrom = DateArg(2015, 1)
    /\ args[r].dateTo = DateArg(2017, 13)
    /\ result[r].err = ErrInvalidDate
    /\ issued[r] = <<>>

\* Months since year 0 of a date whose parts are numbers.
MonthIndex(d) == NumVal(d.year) * 12 + NumVal(d.month)

\* Valid dates, both collectives exist and the caller is an admin of the payer.
PassesUpToDateOrder(a) ==
  /\ a.kind = "Invoice"
  /\ InvoiceArgsError(a) = NoError
  /\ findBySlug(InvoiceParams(a).fromCollectiveSlug) # NoId
  /\ findBySlug(InvoiceParams(a).collectiveSlug) # NoId
  /\ a.remoteUser # NoId
  /\ isAdmin(a.remoteUser, findBySlug(InvoiceParams(a).fromCollectiveSlug))

\* C8: Invoice with valid dates, existing collectives and an admin caller, and
\* a dateTo whose month is earlier than dateFrom's, fails with ValidationFailed
\* 'Invalid date object. dateFrom must be before dateTo' and fetches no
\* transactions.
C8_ReversedRangeIsRefused ==
  \A r \in Reqs :
    ( /\ PassesUpToDateOrder(args[r])
      /\ MonthIndex(InvoiceParams(args[r]).dateTo)
           < MonthIndex(InvoiceParams(args[r]).dateFrom) )
    => /\ ~SentFindAll(r)
       /\ pc[r] \in {"start", "awaitFrom", "awaitHost", "done"}
       /\ pc[r] = "done" =>
            /\ result[r].status = "error"
            /\ result[r].err.error = "ValidationFailed"
            /\ result[r].err.message =
                 "Invalid date object. dateFrom must be before dateTo"
            /\ result[r].invoice = <<>>

\* The request of the test: dateFrom 2017-10, dateTo 2016-12, by the payer.
C8_Witness ==
  \E r \in Reqs :
    /\ args[r].kind = "Invoice" /\ pc[r] = "done"
    /\ args[r].dateFrom = DateArg(2017, 10)
    /\ args[r].dateTo = DateArg(2016, 12)
    /\ args[r].remoteUser = 1
    /\ fromCollective[r] = 1 /\ host[r] = 3
    /\ result[r].err = ErrDateOrder

\* C9: every Invoice request that sends the transaction fetch has a dateTo
\* whose month is strictly later than dateFrom's.
C9_FetchOnlyForLaterDateTo ==
  \A r \in Reqs :
    (args[r].kind = "Invoice" /\ SentFindAll(r)) =>
      MonthIndex(InvoiceParams(args[r]).dateFrom)
        < MonthIndex(InvoiceParams(args[r]).dateTo)

\* C10: the invoice Invoice returns holds exactly the CREDIT rows billed to
\* the payer with HostCollectiveId = host.id and startsAt <= createdAt <
\* endsAt, totalAmount is the sum of their amountInHostCurrency, and
\* FromCollectiveId and HostCollectiveId are the ids of the payer and the
\* host the request names.
C10_RangeInvoice ==
  \A r \in Reqs :
    Returned(r, "Invoice") =>
      LET p == InvoiceParams(args[r])
          payer == findBySlug(p.fromCollectiveSlug)
          hostId == findBySlug(p.collectiveSlug)
          startsAt == Ts(NumVal(p.dateFrom.year), NumVal(p.dateFrom.month), 0)
          endsAt == Ts(NumVal(p.dateTo.year), NumVal(p.dateTo.month), 0)
          rows == SelectSeq(db, LAMBDA t :
                    /\ IsBilledCredit(t, payer)
                    /\ t.HostCollectiveId = hostId
                    /\ startsAt <= t.createdAt /\ t.createdAt < endsAt)
          inv == result[r].invoice[1]
      IN  /\ Len(result[r].invoice) = 1
          /\ inv.transactions = rows
          /\ inv.totalAmount = SumAmountInHostCurrency(rows)
          /\ inv.FromCollectiveId = payer /\ payer # NoId
          /\ inv.HostCollectiveId = hostId /\ hostId # NoId

\* The table holds a row created exactly at startsAt and a row of the same
\* payer and host created exactly at endsAt; the invoice holds the first only.
C10_Witness ==
  \E r \in Reqs :
    /\ Returned(r, "Invoice")
    /\ \E i, j \in 1..Len(db) :
         /\ db[i].createdAt = startsAtOf(args[r]).t
         /\ db[j].createdAt = endsAtOf(args[r]).t
         /\ IsBilledCredit(db[j], fromCollective[r])
         /\ db[j].HostCollectiveId = host[r]
         /\ result[r].invoice[1].transactions = <<db[i]>>
         /\ result[r].invoice[1].totalAmount = db[i].amountInHostCurrency

\* C11: an Invoice request whose transaction fetch, over a valid range, is
\* answered with no rows ends in NotFound 'No transactions found'; and no
\* invoice that Invoice returns has an empty list of transactions.
C11_EmptyFetchIsNotFound ==
  \A r \in Reqs :
    (args[r].kind = "Invoice" /\ pc[r] = "done") =>
      /\ ( /\ SentFindAll(r)
           /\ startsAtOf(args[r]).valid /\ endsAtOf(args[r]).valid
           /\ transactions[r] = <<>> )
         => /\ result[r].status = "error"
            /\ result[r].err.error = "NotFound"
            /\ result[r].err.message = "No transactions found"
            /\ result[r].invoice = <<>>
      /\ result[r].status = "ok" =>
           /\ Len(result[r].invoice) = 1
           /\ result[r].invoice[1].transactions # <<>>

\* The table holds credits of the payer, none of them with the host and in the
\* range asked for: the fetch is answered with no rows.
C11_Witness ==
  \E r \in Reqs :
    /\ args[r].kind = "Invoice" /\ pc[r] = "done"
    /\ SentFindAll(r)
    /\ \E i \in 1..Len(db) : IsBilledCredit(db[i], fromCollective[r])
    /\ transactions[r] = <<>>
    /\ result[r].err = ErrNoTransactions

\* The Invoice request r was given the slug built from that year, month, host
\* slug and payer slug, and has parsed it.
ParsedSlugOf(r, y, m, h, p) ==
  /\ args[r].kind = "Invoice" /\ pc[r] # "start"
  /\ args[r].invoiceSlug = SlugText(y, m, h, p)

\* What the request shows of a parse that gave back year y, month m, host
\* slug h and payer slug p: the parsed fields, no 'Invalid invoiceSlug format'
\* error, and the payer, host and transaction queries it went on to send.
RoundTrips(r, y, m, h, p) ==
  LET parsed == parseInvoiceSlug(args[r].invoiceSlug)
  IN  /\ parsed.err = NoError
      /\ IsNumeric(parsed.dateFrom.year) /\ NumVal(parsed.dateFrom.year) = y
      /\ IsNumeric(parsed.dateFrom.month) /\ NumVal(parsed.dateFrom.month) = m
      /\ parsed.collectiveSlug = h
      /\ parsed.fromCollectiveSlug = p
      /\ result[r].err # ErrInvoiceSlug
      /\ \A n \in 1..Len(issued[r]) :
           /\ issued[r][n].op = "Collective.findOne" => issued[r][n].slug = p
           /\ issued[r][n].op = "Collective.findBySlug" => issued[r][n].slug = h
           /\ issued[r][n].op = "Transaction.findAll" =>
                issued[r][n].startsAt = NewDate(ToStr(y), ToStr(m))

\* C12 (as stated): for every year >= 2015, month 1..12, and non-empty host
\* and payer slugs, either of which may contain '.', parsing
\* year + 2-digit month + '.' + host + '.' + payer gives back that year and
\* month as dateFrom, the host slug as collectiveSlug and the payer slug as
\* fromCollectiveSlug.
C12_RoundTripAnySlugs ==
  \A r \in Reqs : \A y \in SlugYears, m \in SlugMonths, h \in SlugHosts, p \in SlugPayers :
    ParsedSlugOf(r, y, m, h, p) => RoundTrips(r, y, m, h, p)

\* C12 (amended): the same, for payer slugs that contain no '.'; the host slug
\* may contain '.'.
C12_RoundTripDotFreePayer ==
  \A r \in Reqs : \A y \in SlugYears, m \in SlugMonths, h \in SlugHosts, p \in SlugPayers :
    (ParsedSlugOf(r, y, m, h, p) /\ \A i \in 1..Len(p) : p[i] # DOT)
      => RoundTrips(r, y, m, h, p)

\* '201710.g.h.x' by the payer: the payer query was sent for 'x' and the host
\* query for 'g.h'.
C12_Witness ==
  \E r \in Reqs :
    /\ ParsedSlugOf(r, 2017, 10, <<103, DOT, 104>>, Collectives[1].slug)
    /\ Len(issued[r]) = 2
    /\ issued[r][1].slug = Collectives[1].slug
    /\ issued[r][2].slug = <<103, DOT, 104>>
    /\ pc[r] = "done"

\* C13: an Invoice request by invoiceSlug fails with ValidationFailed
\* 'Invalid invoiceSlug format...' whenever the host slug cut from the slug is
\* empty, its 4-character year prefix is below 2015 or its 2-character month
\* is outside 1..12; and every slug that is accepted has a non-empty host
\* slug, a year that is a number >= 2015 and a month that is a number within
\* 1..12.
C13_AcceptedSlugIsWellFormed ==
  \A r \in Reqs :
    (args[r].kind = "Invoice" /\ args[r].invoiceSlug # <<>> /\ pc[r] # "start") =>
      LET year == substr(args[r].invoiceSlug, 0, 4)
          month == substr(args[r].invoiceSlug, 4, 2)
          accepted == result[r].err # ErrInvoiceSlug
      IN  /\ ( \/ parseInvoiceSlug(args[r].invoiceSlug).collectiveSlug = <<>>
               \/ (IsNumeric(year) /\ NumVal(year) < MinYear)
               \/ (IsNumeric(month) /\ (NumVal(month) < 1 \/ NumVal(month) > 12)) )
              => ~accepted
          /\ accepted =>
               /\ parseInvoiceSlug(args[r].invoiceSlug).collectiveSlug # <<>>
               /\ IsNumeric(year) /\ NumVal(year) >= MinYear
               /\ IsNumeric(month) /\ NumVal(month) >= 1 /\ NumVal(month) <= 12

\* C14: TransactionInvoice, asked for a uuid no transaction has, fails with
\* NotFound; asked for the uuid of a transaction, it returns an invoice whose
\* totalAmount is the transaction's amount when it is a CREDIT and -1 times
\* its netAmountInCollectiveCurrency otherwise, whose transactions are that
\* one transaction, and whose slug is 'transaction-' followed by the uuid.
C14_TransactionInvoice ==
  \A r \in Reqs :
    (args[r].kind = "TransactionInvoice" /\ pc[r] = "done") =>
      LET found == {i \in 1..Len(db) : db[i].uuid = args[r].transactionUuid}
      IN  IF found = {}
          THEN /\ result[r].status = "error"
               /\ result[r].err.error = "NotFound"
               /\ result[r].invoice = <<>>
          ELSE \E i \in found :
                 /\ result[r].status = "ok"
                 /\ Len(result[r].invoice) = 1
                 /\ result[r].invoice[1].totalAmount =
                      IF db[i].type = "CREDIT" THEN db[i].amount
                      ELSE 0 - db[i].netAmountInCollectiveCurrency
                 /\ result[r].invoice[1].transactions = <<db[i]>>
                 /\ result[r].invoice[1].slug =
                      <<116, 114, 97, 110, 115, 97, 99, 116, 105, 111, 110, 45>>
                        \o args[r].transactionUuid

\* The invoice of a DEBIT whose netAmountInCollectiveCurrency is -800 has the
\* totalAmount 800.
C14_Witness ==
  \E r \in Reqs :
    /\ Returned(r, "TransactionInvoice")
    /\ transactions[r][1].type = "DEBIT"
    /\ transactions[r][1].netAmountInCollectiveCurrency = -800
    /\ result[r].invoice[1].totalAmount = 800

\* Requests 1 and 2 are the same allInvoices request and both have returned
\* (neither was cut short by a rejected query).
TwinsDone ==
  /\ args[1].kind = "allInvoices" /\ args[2] = args[1]
  /\ pc[1] = "done" /\ pc[2] = "done"
  /\ result[1].err # ErrDatabase /\ result[2].err # ErrDatabase

\* The fetched rows of request r that make up the invoice inv share one
\* hostCurrency.
GroupHasOneCurrency(r, inv) ==
  LET rows == RowsOfGroup(r, inv.year, inv.month, inv.HostCollectiveId)
  IN  \A i, j \in 1..Len(rows) : rows[i].hostCurrency = rows[j].hostCurrency

\* C15 (as stated): two executions of allInvoices with the same caller, the
\* same slug and the same stored rows return identical lists: same length,
\* same order, and the same slug, totalAmount, currency, HostCollectiveId,
\* year and month in every position, whatever the order in which the host
\* lookups of either execution answered.
C15_SameListTwice ==
  TwinsDone => result[1] = result[2]

\* C15 (amended): the two lists have the same length and order and the same
\* slug, totalAmount, HostCollectiveId, year and month in every position; the
\* currency of a position is the same too when the rows of its group share
\* one hostCurrency.
C15_SameListTwiceButCurrency ==
  TwinsDone =>
    /\ result[1].status = result[2].status
    /\ result[1].err = result[2].err
    /\ Len(result[1].invoices) = Len(result[2].invoices)
    /\ \A k \in 1..Len(result[1].invoices) :
         LET a == result[1].invoices[k]
             b == result[2].invoices[k]
         IN  /\ [a EXCEPT !.currency = ""] = [b EXCEPT !.currency = ""]
             /\ GroupHasOneCurrency(1, a) => a.currency = b.currency

\* The host lookups of the two executions answered in different orders (the
\* keys of invoicesByKey were set in different orders), and both returned the
\* same two invoices in the same order.
C15_Witness ==
  /\ TwinsDone
  /\ Len(invoicesByKey[1]) = 2
  /\ invoicesByKey[1] # invoicesByKey[2]
  /\ Len(result[1].invoices) = 2
  /\ \A k \in 1..2 : GroupHasOneCurrency(1, result[1].invoices[k])
  /\ result[1] = result[2]

\* C16: an allInvoices execution sends Collective.findByPk at most once for
\* each HostCollectiveId among the rows it fetched.
C16_OneLookupPerHost ==
  \A r \in Reqs :
    args[r].kind = "allInvoices" =>
      \A h \in HostKeys :
        Cardinality({n \in 1..Len(issued[r]) :
                       /\ issued[r][n].op = "Collective.findByPk"
                       /\ issued[r][n].id = h}) <= 1

\* What the claim says an Invoice request with a dateFrom and a dateTo ends
\* in: the error of the first check that fails, in the order dateFrom,
\* dateTo, payer, host, admin, order of the dates, empty fetch; NoError when
\* all pass.
FirstFailingCheck(r) ==
  LET a == args[r]
      payer == findBySlug(a.fromCollectiveSlug)
  IN  IF IsInvalidDate(a.dateFrom) THEN ErrInvalidDate
      ELSE IF IsInvalidDate(a.dateTo) THEN ErrInvalidDate
      ELSE IF payer = NoId THEN ErrFromNotFound
      ELSE IF findBySlug(a.collectiveSlug) = NoId THEN ErrHostNotFound
      ELSE IF CallerIsNoAdminOf(a, payer) THEN ErrUnauthorized
      ELSE IF MonthIndex(a.dateTo) < MonthIndex(a.dateFrom) THEN ErrDateOrder
      ELSE IF transactions[r] = <<>> THEN ErrNoTransactions
      ELSE NoError

\* The queries an Invoice request has sent when it ends in that error.
QueriesBefore(e) ==
  IF e = ErrInvalidDate THEN <<>>
  ELSE IF e = ErrFromNotFound THEN <<"Collective.findOne">>
  ELSE IF e \in {ErrHostNotFound, ErrUnauthorized, ErrDateOrder}
  THEN <<"Collective.findOne", "Collective.findBySlug">>
  ELSE <<"Collective.findOne", "Collective.findBySlug", "Transaction.findAll">>

\* C17: an Invoice request with a dateFrom and a dateTo ends in the error of
\* the first failing check of (1) validateDate(dateFrom), (2)
\* validateDate(dateTo), (3) payer lookup, NotFound, (4) host lookup, NotFound
\* 'Host not found', (5) admin check, Unauthorized, (6) endsAt < startsAt,
\* ValidationFailed, (7) empty fetch, NotFound, having sent only the queries
\* that come before that check; it returns an invoice when all pass.
C17_FirstFailingCheckDecides ==
  \A r \in Reqs :
    (args[r].kind = "Invoice" /\ args[r].invoiceSlug = <<>> /\ pc[r] = "done") =>
      /\ result[r].err = FirstFailingCheck(r)
      /\ result[r].status = (IF FirstFailingCheck(r) = NoError THEN "ok" ELSE "error")
      /\ [n \in 1..Len(issued[r]) |-> issued[r][n].op]
           = QueriesBefore(FirstFailingCheck(r))

\* A logged-out caller asks for an invoice of an existing payer on a host that
\* does not exist: NotFound 'Host not found', not Unauthorized.
C17_Witness ==
  \E r \in Reqs :
    /\ args[r].kind = "Invoice" /\ pc[r] = "done"
    /\ args[r].remoteUser = NoId
    /\ fromCollective[r] # NoId
    /\ args[r].collectiveSlug = UnknownSlug
    /\ result[r].err = ErrHostNotFound

\* A logged-out caller asks for an invalid date of a payer that does not
\* exist: ValidationFailed, and no lookup was sent.
C17_WitnessDateFirst ==
  \E r \in Reqs :
    /\ args[r].kind = "Invoice" /\ pc[r] = "done"
    /\ args[r].remoteUser = NoId
    /\ args[r].fromCollectiveSlug = UnknownSlug
    /\ IsInvalidDate(args[r].dateTo) /\ ~IsInvalidDate(args[r].dateFrom)
    /\ result[r].err = ErrInvalidDate
    /\ issued[r] = <<>>

\* The request has sent a fetch of transactions or a per-transaction host
\* lookup.
SentTransactionQuery(r) ==
  \E n \in 1..Len(issued[r]) :
    issued[r][n].op \in {"Transaction.findAll", "Collective.findByPk"}

\* C18: allInvoices and Invoice send Transaction.findAll (and, after it, the
\* host lookups of the rows) only when the payer exists and the caller is an
\* admin of it, and after the payer lookup; a request that ended in NotFound
\* for the payer or the host, or in Unauthorized, has sent neither.
C18_FetchOnlyAfterAdminCheck ==
  \A r \in Reqs :
    args[r].kind \in {"allInvoices", "Invoice"} =>
      /\ SentTransactionQuery(r) =>
           /\ findBySlug(FromSlugOf(args[r])) # NoId
           /\ fromCollective[r] = findBySlug(FromSlugOf(args[r]))
           /\ ~CallerIsNoAdminOf(args[r], fromCollective[r])
           /\ issued[r][1].op = "Collective.findOne"
      /\ ( /\ pc[r] = "done"
           /\ result[r].err \in {ErrFromNotFoundAll, ErrFromNotFound,
                                 ErrHostNotFound, ErrUnauthorized} )
         => ~SentTransactionQuery(r)

\* allInvoices for a payer with stored credits, by a logged-in user that is no
\* admin of the payer: Unauthorized, and only the payer lookup was sent.
C18_Witness ==
  \E r \in Reqs :
    /\ args[r].kind = "allInvoices" /\ pc[r] = "done"
    /\ args[r].remoteUser # NoId
    /\ \E i \in 1..Len(db) : IsBilledCredit(db[i], fromCollective[r])
    /\ result[r].err = ErrUnauthorized
    /\ Len(issued[r]) = 1
    /\ issued[r][1].op = "Collective.findOne"

\* C19: parseInvoiceSlug gives dateTo the year of the slug and its month plus
\* one, without rolling over.  For the months 01..11 the range Invoice fetches
\* is that calendar month: from the first instant of the month up to the first
\* instant of the next.  For month 12 dateTo is (year, 13), which validateDate
\* refuses: Invoice fails with ValidationFailed 'Invalid date object. Must
\* have a valid month...' and sends no lookup.
C19_DecemberSlugIsRefused ==
  \A r \in Reqs : \A y \in SlugYears, m \in SlugMonths, h \in SlugHosts, p \in SlugPayers :
    ParsedSlugOf(r, y, m, h, p) =>
      LET parsed == parseInvoiceSlug(args[r].invoiceSlug)
      IN  /\ parsed.err = NoError
          /\ parsed.dateTo.year = ToStr(y)
          /\ parsed.dateTo.month = ToStr(m + 1)
          /\ m <= 11 =>
               /\ result[r].err # ErrInvalidDate
               /\ \A n \in 1..Len(issued[r]) :
                    issued[r][n].op = "Transaction.findAll" =>
                      /\ issued[r][n].startsAt = [valid |-> TRUE, t |-> Ts(y, m, 0)]
                      /\ issued[r][n].endsAt = [valid |-> TRUE, t |-> Ts(y, m + 1, 0)]
          /\ m = 12 =>
               /\ pc[r] = "done"
               /\ result[r].status = "error"
               /\ result[r].err = ErrInvalidDate
               /\ issued[r] = <<>>

\* '201712.g.x' by the payer: refused before any lookup.
C19_Witness ==
  \E r \in Reqs :
    /\ ParsedSlugOf(r, 2017, 12, Collectives[3].slug, Collectives[1].slug)
    /\ args[r].remoteUser = 1
    /\ result[r].err = ErrInvalidDate
    /\ issued[r] = <<>>

\* '201710.g.x' by the payer: the fetch covers October 2017.
C19_WitnessOctober ==
  \E r \in Reqs :
    /\ ParsedSlugOf(r, 2017, 10, Collectives[3].slug, Collectives[1].slug)
    /\ Len(issued[r]) = 3
    /\ issued[r][3].startsAt.t = Ts(2017, 10, 0)
    /\ issued[r][3].endsAt.t = Ts(2017, 11, 0)

\* Request 1 is an allInvoices request that returned the invoice inv, and
\* request 2 is an Invoice request of the same caller for the slug of inv
\* that has ended.
ListedThenAsked(inv) ==
  /\ Returned(1, "allInvoices")
  /\ \E k \in 1..Len(result[1].invoices) : result[1].invoices[k] = inv
  /\ args[2].kind = "Invoice" /\ pc[2] = "done"
  /\ args[2].remoteUser = args[1].remoteUser
  /\ args[2].invoiceSlug = inv.slug

\* C20: Invoice, asked by the same caller for a slug that allInvoices returns,
\* succeeds and returns the totalAmount, currency, HostCollectiveId and
\* FromCollectiveId of the listed invoice, with transactions whose amounts in
\* host currency sum to that total.
C20_ListedSlugResolves ==
  \A inv \in {result[1].invoices[k] : k \in 1..Len(result[1].invoices)} :
    ListedThenAsked(inv) =>
      /\ result[2].status = "ok"
      /\ Len(result[2].invoice) = 1
      /\ result[2].invoice[1].totalAmount = inv.totalAmount
      /\ result[2].invoice[1].currency = inv.currency
      /\ result[2].invoice[1].HostCollectiveId = inv.HostCollectiveId
      /\ result[2].invoice[1].FromCollectiveId = inv.FromCollectiveId
      /\ SumAmountInHostCurrency(result[2].invoice[1].transactions) = inv.totalAmount

\* The slug has no host component: it holds no '.', or its only '.' is the
\* one that follows the 6 characters of the date.
LacksHost(slug) ==
  LET dots == {i \in 1..Len(slug) : slug[i] = DOT}
  IN  dots = {} \/ dots = {HostSlugStart}

\* C21: an Invoice request by a slug that has no host component (no '.' at
\* all, or only the '.' after the date, as in '201710.x') fails with
\* ValidationFailed 'Invalid invoiceSlug format...'; and no accepted slug is
\* parsed to a collectiveSlug that is '.' or that starts with the characters
\* of the date.
C21_SlugWithoutHostIsRefused ==
  \A r \in Reqs :
    (args[r].kind = "Invoice" /\ args[r].invoiceSlug # <<>> /\ pc[r] # "start") =>
      LET slug == args[r].invoiceSlug
          parsed == parseInvoiceSlug(slug)
      IN  /\ LacksHost(slug) =>
               /\ pc[r] = "done"
               /\ result[r].err = ErrInvoiceSlug
          /\ result[r].err # ErrInvoiceSlug =>
               /\ parsed.collectiveSlug # <<DOT>>
               /\ parsed.collectiveSlug
                    # SubSeq(slug, 1, Len(parsed.collectiveSlug))

\* C22: the currency of the invoice Invoice returns is a hostCurrency that one
\* of its transactions carries; it is the currency of the host only when none
\* of its transactions carries a hostCurrency.
C22_CurrencyOfTransactions ==
  \A r \in Reqs :
    Returned(r, "Invoice") =>
      LET inv == result[r].invoice[1]
          carried == {inv.transactions[i].hostCurrency :
                        i \in 1..Len(inv.transactions)} \ {""}
      IN  IF carried = {}
          THEN inv.currency = Collectives[inv.HostCollectiveId].currency
          ELSE inv.currency \in carried

\* The host lookup of a fetched row of request r fails: it was rejected, or
\* the row has no HostCollectiveId or one that no collective has.
SomeHostLookupFails(r) ==
  \/ \E i \in 1..Len(cb[r]) : cb[r][i] = "rejected"
  \/ \E i \in 1..Len(transactions[r]) :
       transactions[r][i].HostCollectiveId \notin CollectiveIds

\* C23: an allInvoices request in which the host lookup of any fetched row
\* fails never returns a list: once it has ended it has failed, and its result
\* holds no invoice, whatever rows were grouped before the failure.
C23_AllOrNothing ==
  \A r \in Reqs :
    (args[r].kind = "allInvoices" /\ SomeHostLookupFails(r)) =>
      /\ result[r].status # "ok"
      /\ result[r].invoices = <<>>
      /\ pc[r] = "done" => result[r].status = "error"

\* A row on host 'g' was grouped before the lookup of a row without a known
\* host answered: the request failed and returned nothing.
C23_Witness ==
  \E r \in Reqs :
    /\ args[r].kind = "allInvoices" /\ pc[r] = "done"
    /\ Len(invoicesByKey[r]) >= 1
    /\ \E i \in 1..Len(transactions[r]) :
         /\ transactions[r][i].HostCollectiveId \notin CollectiveIds
         /\ cb[r][i] = "done"
    /\ result[r].err = ErrTypeError
    /\ result[r].invoices = <<>>

\* The same, the lookup having been rejected.
C23_WitnessRejected ==
  \E r \in Reqs :
    /\ args[r].kind = "allInvoices" /\ pc[r] = "done"
    /\ Len(invoicesByKey[r]) >= 1
    /\ \E i \in 1..Len(cb[r]) : cb[r][i] = "rejected"
    /\ result[r].err = ErrDatabase
    /\ result[r].invoices = <<>>

\* The rows of the table billed to that payer in that year and month on that
\* host.
RowsBilledTo(payer, year, month, hostId) ==
  SelectSeq(db, LAMBDA t :
    /\ IsBilledCredit(t, payer)
    /\ getFullYear(t.createdAt) = year
    /\ getMonth(t.createdAt) + 1 = month
    /\ t.HostCollectiveId = hostId)

\* C24: with two allInvoices requests for different payers in flight, every
\* invoice a request returns has the FromCollectiveId of its own payer, a slug
\* that ends in '.' and the slug of its own payer, and as totalAmount the sum
\* over the rows billed to its own payer in that month on that host: no row
\* of the other payer counts.
C24_RequestsAreIsolated ==
  \A r \in Reqs :
    Returned(r, "allInvoices") =>
      LET payer == findBySlug(args[r].fromCollectiveSlug)
          suffix == <<DOT>> \o args[r].fromCollectiveSlug
      IN  \A k \in 1..Len(result[r].invoices) :
            LET inv == result[r].invoices[k]
            IN  /\ inv.FromCollectiveId = payer
                /\ Len(inv.slug) > Len(suffix)
                /\ SubSeq(inv.slug, Len(inv.slug) - Len(suffix) + 1, Len(inv.slug))
                     = suffix
                /\ inv.totalAmount = SumAmountInHostCurrency(
                     RowsBilledTo(payer, inv.year, inv.month, inv.HostCollectiveId))

\* Both requests are grouping at the same time, each has grouped a row of its
\* own payer under the same month and host, and request 1 still awaits a host.
C24_Witness ==
  /\ pc[1] = "mapping" /\ pc[2] = "mapping"
  /\ args[1].fromCollectiveSlug # args[2].fromCollectiveSlug
  /\ Len(invoicesByKey[1]) = 1 /\ Len(invoicesByKey[2]) = 1
  /\ invoicesByKey[1][1].FromCollectiveId = 1
  /\ invoicesByKey[2][1].FromCollectiveId = 2
  /\ invoicesByKey[1][1].HostCollectiveId = invoicesByKey[2][1].HostCollectiveId
  /\ \E i \in 1..Len(cb[1]) : cb[1][i] = "awaiting"

\* Both requests returned one invoice of the same month and host, request 1
\* over two rows and request 2 over the third.
C24_WitnessReturned ==
  /\ Returned(1, "allInvoices") /\ Returned(2, "allInvoices")
  /\ args[1].fromCollectiveSlug # args[2].fromCollectiveSlug
  /\ Len(result[1].invoices) = 1 /\ Len(result[2].invoices) = 1
  /\ Len(transactions[1]) = 2 /\ Len(transactions[2]) = 1
  /\ result[1].invoices[1].HostCollectiveId = result[2].invoices[1].HostCollectiveId
  /\ result[1].invoices[1].totalAmount + result[2].invoices[1].totalAmount = 700

\* C25: a Collective request that names a slug (or, without a slug, an id)
\* that no collective has fails with NotFound 'Collective not found' and
\* returns nothing; one that names neither ends in the error 'Please provide
\* a slug or an id', having sent no lookup.
C25_CollectiveNotFound ==
  \A r \in Reqs :
    (args[r].kind = "Collective" /\ pc[r] = "done") =>
      LET slug == args[r].slug
          id == args[r].id
          lower == [i \in 1..Len(slug) |->
                      IF slug[i] \in 65..90 THEN slug[i] + 32 ELSE slug[i]]
          matches == IF slug # <<>>
                     THEN {c \in CollectiveIds : Collectives[c].slug = lower}
                     ELSE {c \in CollectiveIds : c = id}
      IN  IF slug = <<>> /\ id = NoId
          THEN /\ result[r].status = "error"
               /\ result[r].err.message = "Please provide a slug or an id"
               /\ issued[r] = <<>>
          ELSE matches = {} =>
                 /\ result[r].status = "error"
                 /\ result[r].err.error = "NotFound"
                 /\ result[r].err.message = "Collective not found"

\* C26: a caller of allUpdates that is logged out or no admin of
\* args.CollectiveId is never returned an update whose publishedAt is null,
\* with or without includeHostedCollectives; and the query for the updates
\* carries the publishedAt filter exactly when the caller is no admin of
\* args.CollectiveId.
C26_UnpublishedOnlyForAdmins ==
  \A r \in Reqs :
    args[r].kind = "allUpdates" =>
      /\ \A n \in 1..Len(issued[r]) :
           issued[r][n].op = "Update.findAll" =>
             (issued[r][n].query.publishedAtNotNull
                <=> CallerIsNoAdminOf(args[r], args[r].CollectiveId))
      /\ (result[r].status = "ok" /\ CallerIsNoAdminOf(args[r], args[r].CollectiveId))
           => \A k \in 1..Len(result[r].updates) :
                result[r].updates[k].publishedAt # 0

\* A logged-in caller that is no admin of collective 1 asks for the updates of
\* the collectives it hosts, one of which has an unpublished update: the
\* published one is returned, the unpublished one is not.
C26_Witness ==
  \E r \in Reqs :
    /\ Returned(r, "allUpdates")
    /\ args[r].CollectiveId = 1 /\ args[r].includeHostedCollectives
    /\ args[r].remoteUser = 2
    /\ args[r].limit = 0 /\ args[r].offset = 0
    /\ \E n \in 1..Len(Updates) :
         Updates[n].CollectiveId = 2 /\ Updates[n].publishedAt = 0
    /\ Len(result[r].updates) = 1
    /\ result[r].updates[1].CollectiveId = 2
    /\ result[r].updates[1].publishedAt # 0

\* The admin of collective 1 is returned its unpublished update.
C26_WitnessAdmin ==
  \E r \in Reqs :
    /\ Returned(r, "allUpdates")
    /\ args[r].CollectiveId = 1 /\ ~args[r].includeHostedCollectives
    /\ args[r].remoteUser = 1
    /\ \E k \in 1..Len(result[r].updates) : result[r].updates[k].publishedAt = 0

\* The run of request r through paginate is over.
Paginated(r) == args[r].kind = "paginate" /\ pc[r] = "done"

\* The calls of next of request r.
NextCalls(r) == SelectSeq(issued[r], LAMBDA q : q.op = "next")

\* The per_page of the request is none the code can use: left out, 0, '' or
\* not a number.
PerPageUnusable(a) ==
  ~Truthy(TimesOne(OrElse(a.body.per_page, a.query.per_page)))

\* C27: through paginate, a request with a since_id gets as req.pagination the
\* filter id > since_id alone; any other request gets paginateOffset(page,
\* perPage) with page >= 1 and options.min <= perPage <= options.max, perPage
\* being the default (within those bounds) when per_page is left out, zero or
\* not a number; next is called exactly once either way.
C27_Paginate ==
  \A r \in Reqs :
    Paginated(r) =>
      LET a == args[r]
          options == paginateOptions(a.options)
          got == result[r].pagination
          present == a.body.since_id # Undefined \/ a.query.since_id # Undefined
      IN  /\ Len(NextCalls(r)) = 1 /\ NextCalls(r)[1].err = NoError
          /\ present =>
               /\ got.kind = "where id > sinceId"
               /\ got.sinceId \in {a.body.since_id, a.query.since_id} \ {Undefined}
          /\ ~present =>
               /\ got.kind = "paginateOffset"
               /\ got.page >= 1
               /\ options.min <= got.perPage /\ got.perPage <= options.max
               /\ PerPageUnusable(a) =>
                    got.perPage = clampPerPage(options.default, options)

\* C27 as the code has it: the since filter is taken when since_id is truthy
\* (given, and neither 0 nor ''), any other request gets paginateOffset(page,
\* perPage) with page >= 1 and perPage <= options.max, and options.min <=
\* perPage when options.min <= options.max; perPage is the default brought
\* within the bounds when per_page is left out, zero or not a number; next is
\* called exactly once, with no error, either way.
C27_PaginateTruthySince ==
  \A r \in Reqs :
    Paginated(r) =>
      LET a == args[r]
          options == paginateOptions(a.options)
          got == result[r].pagination
          sinceId == OrElse(a.body.since_id, a.query.since_id)
      IN  /\ Len(NextCalls(r)) = 1 /\ NextCalls(r)[1].err = NoError
          /\ Truthy(sinceId) =>
               /\ got.kind = "where id > sinceId"
               /\ got.sinceId = sinceId
          /\ ~Truthy(sinceId) =>
               /\ got.kind = "paginateOffset"
               /\ got.page >= 1
               /\ got.perPage <= options.max
               /\ options.min <= options.max => options.min <= got.perPage
               /\ PerPageUnusable(a) =>
                    got.perPage = clampPerPage(options.default, options)

\* A request with no since_id and a negative per_page in the query string,
\* under options with a min above 1, gets perPage = options.min and page 1.
C27_Witness ==
  \E r \in Reqs :
    /\ Paginated(r)
    /\ args[r].body.since_id = Undefined /\ args[r].query.since_id = Undefined
    /\ args[r].body.per_page = Undefined
    /\ args[r].query.per_page = StrV(<<45, 53>>)
    /\ args[r].body.page = Num(0 - 2)
    /\ paginateOptions(args[r].options).min = 5
    /\ result[r].pagination = paginateOffset(1, 5)

\* A request with since_id 7 and a page and a per_page gets the since filter.
C27_WitnessSince ==
  \E r \in Reqs :
    /\ Paginated(r)
    /\ args[r].body.since_id = Num(7)
    /\ args[r].body.per_page = Num(30) /\ args[r].body.page = Num(3)
    /\ result[r].pagination = SinceFilter(Num(7))

\* A request whose since_id is 0 gets the first page, not the since filter.
C27_WitnessZeroSince ==
  \E r \in Reqs :
    /\ Paginated(r)
    /\ args[r].body.since_id = Num(0) /\ args[r].query.since_id = Undefined
    /\ result[r].pagination.kind = "paginateOffset"

\* The User.auth calls of request r.
AuthCalls(r) == SelectSeq(issued[r], LAMBDA q : q.op = "User.auth")

\* C28: through authenticate, next is never called twice and has been called
\* exactly once when the request is over; with a login (username or email) or
\* the password missing, User.auth is not called and next is called with no
\* error; req.remoteUser is set only when User.auth reported no error and a
\* user, and is that user; an error with code 400 or no user gives next a
\* BadRequest "Invalid username/email or password", any other error a
\* ServerError.
C28_Authenticate ==
  \A r \in Reqs :
    args[r].kind = "authenticate" =>
      LET reported == result[r].auth
          calls == NextCalls(r)
      IN  /\ Len(calls) <= 1 /\ Len(AuthCalls(r)) <= 1
          /\ pc[r] = "done" <=> Len(calls) = 1
          /\ CredentialsMissing(args[r]) =>
               /\ Len(AuthCalls(r)) = 0
               /\ pc[r] = "done" => calls[1].err = NoError
          /\ pc[r] = "awaitAuth" => Len(AuthCalls(r)) = 1
          /\ (pc[r] = "done" /\ result[r].remoteUser # NoId) =>
               /\ Len(AuthCalls(r)) = 1
               /\ ~reported.e.given /\ reported.user # NoId
               /\ result[r].remoteUser = reported.user
          /\ (pc[r] = "done" /\ Len(AuthCalls(r)) = 1) =>
               /\ (reported.e.given /\ reported.e.code = 400)
                    => calls[1].err = ErrInvalidLogin
               /\ (~reported.e.given /\ reported.user = NoId)
                    => calls[1].err = ErrInvalidLogin
               /\ (reported.e.given /\ reported.e.code # 400)
                    => /\ calls[1].err.error = "ServerError"
                       /\ calls[1].err.message = reported.e.message
               /\ (~reported.e.given /\ reported.user # NoId)
                    => calls[1].err = NoError

\* User.auth was called with the e-mail and the password of the body and
\* reported neither an error nor a user: next got the BadRequest and
\* req.remoteUser is not set.
C28_Witness ==
  \E r \in Reqs :
    /\ args[r].kind = "authenticate" /\ pc[r] = "done"
    /\ Len(AuthCalls(r)) = 1
    /\ AuthCalls(r)[1].login = StrV(<<101>>)
    /\ ~result[r].auth.e.given /\ result[r].auth.user = NoId
    /\ NextCalls(r) = <<NextCall(ErrInvalidLogin)>>
    /\ result[r].remoteUser = NoId

\* User.auth reported a user: req.remoteUser is that user.
C28_WitnessUser ==
  \E r \in Reqs :
    /\ args[r].kind = "authenticate" /\ pc[r] = "done"
    /\ result[r].remoteUser = 2
    /\ NextCalls(r) = <<NextCall(NoError)>>

\* A failure other than 400 gives a ServerError with its message.
C28_WitnessServerError ==
  \E r \in Reqs :
    /\ args[r].kind = "authenticate" /\ pc[r] = "done"
    /\ result[r].auth.e = AuthError(500, "connection lost")
    /\ NextCalls(r) = <<NextCall(ErrServer("connection lost"))>>

\* A password given as '' with no body: next() without User.auth.
C28_WitnessMissing ==
  \E r \in Reqs :
    /\ args[r].kind = "authenticate" /\ pc[r] = "done"
    /\ ~args[r].body.given
    /\ args[r].query.username = StrV(<<117>>)
    /\ args[r].query.password = StrV(<<>>)
    /\ Len(AuthCalls(r)) = 0
    /\ NextCalls(r) = <<NextCall(NoError)>>

====
